---------------------------- MODULE Spec2Model ----------------------------
(***************************************************************************)
(* A model of MemoryEditor (imgui_memory_editor.h): the range lookup       *)
(* IsInRange over the highlight ranges and the notes, the outline that      *)
(* drawNoteRect / hasRangeBelow draw around the cells of a note, the        *)
(* decoding and formatting of DrawPreviewData, the addresses that a frame   *)
(* of DrawContents selects, and the converter panel of DrawPreviewLine.     *)
(*                                                                         *)
(* Addresses, indices and sizes are size_t values.  Sequences are 1-based  *)
(* in TLA+, the code's indices are 0-based: ranges[idx] of the code is     *)
(* ranges[idx + 1] here, and every index the model stores is the code's.   *)
(***************************************************************************)
EXTENDS Integers, Sequences, FiniteSets

VARIABLES
    Ranges,           \* std::vector<HighlightRange> Ranges
    Notes,            \* std::vector<NoteRange> Notes
    erased,           \* the last press of "Del": the row and what followed
    Cols,             \* int Cols
    OptMidColsCount,  \* int OptMidColsCount
    mem_size,         \* the size of the buffer the host hands to DrawContents
    lookup,           \* the last IsInRange(Ranges, ...) call: arguments and outputs
    cells,            \* the note outlines of the last pass over the visible lines
    mem_data,         \* the bytes of the buffer the host hands to DrawContents
    DataPreviewAddr,  \* size_t DataPreviewAddr
    PreviewDataType,  \* DataType_ PreviewDataType
    PreviewEndianess, \* int PreviewEndianess: 0 is "LE", 1 is "BE"
    HostLittleEndian, \* the byte order of the machine the editor is built for
    preview,          \* the last DrawPreviewData call on the buffer: format and outputs
    below,            \* the last hasRangeBelow call of drawNoteRect: arguments and result
    ReadOnly,         \* bool ReadOnly
    OptShowOptions,   \* bool OptShowOptions
    OptShowAscii,     \* bool OptShowAscii
    DataEditingAddr,  \* size_t DataEditingAddr
    DataEditingTakeFocus, \* bool DataEditingTakeFocus
    GotoAddr,         \* size_t GotoAddr
    HighlightMin,     \* size_t HighlightMin
    HighlightMax,     \* size_t HighlightMax
    HighlightFn,      \* bool (*HighlightFn)(data, off): the addresses it returns true for
    highlight,        \* the last highlight rectangle DrawContents decided on
    PreviewHeaderOpen, \* whether the header "Preview Data" is open
    frame,            \* the last DrawContents call: its input and what it did
    ValueToConvert,   \* size_t ValueToConvert: its 8 bytes, least significant first
    ConvertValueType, \* DataType_ ConvertValueType
    ConvertValueFormat, \* DataFormat ConvertValueFormat
    ValueConverterInputBuf, \* char ValueConverterInputBuf[32]: the text before the NUL
    convert           \* the last step of the converter panel: what it started from

\* The variables of the preview panel.
previewVars ==
    <<mem_data, DataPreviewAddr, PreviewDataType, PreviewEndianess, HostLittleEndian, preview>>

\* The variables of a frame of DrawContents, the grid's outlines apart.
editorVars ==
    <<ReadOnly, OptShowOptions, OptShowAscii, DataEditingAddr, DataEditingTakeFocus,
      GotoAddr, HighlightMin, HighlightMax, HighlightFn, highlight, PreviewHeaderOpen,
      frame>>

\* The variables of the converter panel.
converterVars ==
    <<ValueToConvert, ConvertValueType, ConvertValueFormat, ValueConverterInputBuf, convert>>

vars == <<Ranges, Notes, Cols, OptMidColsCount, mem_size, lookup, cells, previewVars, below,
          editorVars, converterVars, erased>>

-----------------------------------------------------------------------------
(* Program constants *)

\* std::numeric_limits<size_t>::max(), the "no address / no index" sentinel.
\* size_t is modelled 16 bits wide.
SIZE_MAX == 65535

\* if (ranges.size() < 100L): below it the linear scan, from it on binary_find
LINEAR_SCAN_LIMIT == 100

\* DEFAULT_NOTE_COLOR = IM_COL32(255, 200, 0, 255), as one opaque colour id
DEFAULT_NOTE_COLOR == 7

\* Color highlight_range_color; size_t range_idx = max: what the caller's
\* variables hold when DrawContents calls IsInRange.  The colour is not
\* initialised; IsInRange never reads it, so one value stands for it, one
\* that is no range's colour.
UninitColor == 0

\* enum class RangePosition
RangePosition == {"NotInRange", "Start", "Middle", "End"}

\* enum DataType_
DataType_S8 == 0
DataType_U8 == 1
DataType_S16 == 2
DataType_U16 == 3
DataType_S32 == 4
DataType_U32 == 5
DataType_S64 == 6
DataType_U64 == 7
DataType_HalfFloat == 8
DataType_Float == 9
DataType_Double == 10
DataType_COUNT == 11

\* enum DataFormat
DataFormat_Bin == 0
DataFormat_Dec == 1
DataFormat_Hex == 2
DataFormat_COUNT == 3

-----------------------------------------------------------------------------
(* Bounds of the model *)

\* small range sequences hold at most MaxRanges ranges ...
MaxRanges == 2
\* ... whose bounds are addresses 0 .. MaxRangeAddr (an end may be one more)
MaxRangeAddr == 1
\* the sequences at the threshold hold LINEAR_SCAN_LIMIT - 1 .. + BigExtra ranges
BigExtra == 1
\* at most MaxNotes notes are added in the notes table
MaxNotes == 2
\* the buffers of the preview hold at most MaxMemSize bytes (the examples apart)
MaxMemSize == 4
\* hasRangeBelow is called over at most MaxBelowNotes notes
MaxBelowNotes == 3
\* the buffers of the frames of DrawContents hold at most MaxEditorMem bytes
MaxEditorMem == 6
\* the converter panel is followed for at most MaxConvertSteps steps
MaxConvertSteps == 3

-----------------------------------------------------------------------------
(* IsInRange *)

\* What a call leaves behind: the returned position and the two output
\* parameters (Color& color, size_t* out_range_idx) after the call.
Out(pos, color, idx) == [pos |-> pos, color |-> color, idx |-> idx]

MutRangePositionOf(range, addr) ==
    IF addr = range.RangeStartAddress THEN "Start"
    ELSE IF addr = range.RangeEndAddress THEN "End"
    ELSE "Middle"

\* The classification of an address inside a matched range (both paths).
RangePositionOf(range, addr) ==
    IF addr = range.RangeStartAddress THEN "Start"
    ELSE IF addr = (range.RangeEndAddress - 1) % (SIZE_MAX + 1) THEN "End"
    ELSE "Middle"

RECURSIVE MutLinearScanSkipInactive(_, _, _, _, _)
MutLinearScanSkipInactive(ranges, idx, addr, color, out_range_idx) ==
    IF idx >= Len(ranges) THEN Out("NotInRange", color, out_range_idx)
    ELSE LET highlight_range == ranges[idx + 1] IN
         IF /\ highlight_range.RangeStartAddress <= addr
            /\ addr < highlight_range.RangeEndAddress
            /\ highlight_range.isActive
         THEN Out(RangePositionOf(highlight_range, addr), highlight_range.RangeColor, idx)
         ELSE MutLinearScanSkipInactive(ranges, idx + 1, addr, color, out_range_idx)

RECURSIVE MutLinearScanNoActiveTest(_, _, _, _, _)
MutLinearScanNoActiveTest(ranges, idx, addr, color, out_range_idx) ==
    IF idx >= Len(ranges) THEN Out("NotInRange", color, out_range_idx)
    ELSE LET highlight_range == ranges[idx + 1] IN
         IF /\ highlight_range.RangeStartAddress <= addr
            /\ addr < highlight_range.RangeEndAddress
         THEN Out(RangePositionOf(highlight_range, addr), highlight_range.RangeColor, idx)
         ELSE MutLinearScanNoActiveTest(ranges, idx + 1, addr, color, out_range_idx)

RECURSIVE MutLinearScanEndInclusive(_, _, _, _, _)
MutLinearScanEndInclusive(ranges, idx, addr, color, out_range_idx) ==
    IF idx >= Len(ranges) THEN Out("NotInRange", color, out_range_idx)
    ELSE LET highlight_range == ranges[idx + 1] IN
         IF /\ highlight_range.RangeStartAddress <= addr
            /\ addr <= highlight_range.RangeEndAddress
         THEN IF ~highlight_range.isActive
              THEN Out("NotInRange", highlight_range.RangeColor, out_range_idx)
              ELSE Out(RangePositionOf(highlight_range, addr), highlight_range.RangeColor, idx)
         ELSE MutLinearScanEndInclusive(ranges, idx + 1, addr, color, out_range_idx)

\* The loop of the linear path, from index idx on.  The colour is written as
\* soon as a range contains addr, before its isActive flag is looked at.
RECURSIVE LinearScan(_, _, _, _, _)
LinearScan(ranges, idx, addr, color, out_range_idx) ==
    IF idx >= Len(ranges) THEN Out("NotInRange", color, out_range_idx)
    ELSE LET highlight_range == ranges[idx + 1] IN
         IF /\ highlight_range.RangeStartAddress <= addr
            /\ addr < highlight_range.RangeEndAddress
         THEN IF ~highlight_range.isActive
              THEN Out("NotInRange", highlight_range.RangeColor, out_range_idx)
              ELSE Out(RangePositionOf(highlight_range, addr), highlight_range.RangeColor, idx)
         ELSE LinearScan(ranges, idx + 1, addr, color, out_range_idx)

\* lt::algorithms::cancel_search<s32>(): the comparator's "stop, not found"
CANCEL_SEARCH == 2

MutRangeCompareEndInclusive(highlight_range, addr) ==
    IF addr < highlight_range.RangeStartAddress THEN -1
    ELSE IF addr > highlight_range.RangeEndAddress THEN 1
    ELSE IF highlight_range.isActive THEN 0
    ELSE CANCEL_SEARCH

\* The comparator handed to binary_find: -1 go left, 1 go right, 0 found.
RangeCompare(highlight_range, addr) ==
    IF addr < highlight_range.RangeStartAddress THEN -1
    ELSE IF addr >= highlight_range.RangeEndAddress THEN 1
    ELSE IF highlight_range.isActive THEN 0
    ELSE CANCEL_SEARCH

\* lt::algorithms::binary_find over the half-open index interval [lo, hi):
\* the classical bisection, driven by the comparator.
RECURSIVE binary_find(_, _, _, _)
binary_find(ranges, lo, hi, addr) ==
    IF lo >= hi THEN [found |-> FALSE, idx |-> 0]
    ELSE LET mid == lo + ((hi - lo) \div 2)
             c   == RangeCompare(ranges[mid + 1], addr)
         IN  IF c = 0 THEN [found |-> TRUE, idx |-> mid]
             ELSE IF c = CANCEL_SEARCH THEN [found |-> FALSE, idx |-> 0]
             ELSE IF c < 0 THEN binary_find(ranges, lo, mid, addr)
             ELSE binary_find(ranges, mid + 1, hi, addr)

\* The binary-search path.  The comparator writes the colour only when it
\* reports a match.
BinarySearchPath(ranges, addr, color, out_range_idx) ==
    LET r == binary_find(ranges, 0, Len(ranges), addr) IN
    IF ~r.found THEN Out("NotInRange", color, out_range_idx)
    ELSE LET range == ranges[r.idx + 1] IN
         Out(RangePositionOf(range, addr), range.RangeColor, r.idx)

MutOutsideBounds(ranges, addr) == FALSE

\* The fast reject on the first range's start and the last range's end.
OutsideBounds(ranges, addr) ==
    LET startRange == ranges[1].RangeStartAddress
        endRange   == ranges[Len(ranges)].RangeEndAddress
    IN  addr < startRange \/ addr > endRange

\* IsInRange(ranges, addr, color, out_range_idx): color and out_range_idx are
\* what the caller's variables hold before the call.
IsInRange(ranges, addr, color, out_range_idx) ==
    IF Len(ranges) = 0 THEN Out("NotInRange", color, out_range_idx)
    ELSE IF OutsideBounds(ranges, addr) THEN Out("NotInRange", color, out_range_idx)
    ELSE IF Len(ranges) < LINEAR_SCAN_LIMIT
         THEN LinearScan(ranges, 0, addr, color, out_range_idx)
         ELSE BinarySearchPath(ranges, addr, color, out_range_idx)


-----------------------------------------------------------------------------
(* drawNoteRect and hasRangeBelow *)

\* NoteRange rangesInNextLine = {}: what the scan of hasRangeBelow fills in.
NoRangesInNextLine ==
    [RangeStartAddress |-> 0, RangeEndAddress |-> 0, isActive |-> FALSE]

RECURSIVE MutScanNotesBelowNoBreak(_, _, _, _, _)
MutScanNotesBelowNoBreak(noteIdx, noteStartIdx, nextLineFirstAddr, cellAddrBellow, acc) ==
    IF noteIdx >= Len(Notes) THEN acc
    ELSE LET note == Notes[noteIdx + 1] IN
         IF nextLineFirstAddr >= note.RangeStartAddress /\ cellAddrBellow < note.RangeEndAddress
         THEN MutScanNotesBelowNoBreak(noteIdx + 1, noteStartIdx, nextLineFirstAddr, cellAddrBellow,
                  [RangeStartAddress |->
                       IF noteIdx = noteStartIdx THEN note.RangeStartAddress
                       ELSE acc.RangeStartAddress,
                   RangeEndAddress |-> note.RangeEndAddress,
                   isActive |-> note.isActive])
         ELSE MutScanNotesBelowNoBreak(noteIdx + 1, noteStartIdx, nextLineFirstAddr,
                                       cellAddrBellow, acc)

\* The loop of hasRangeBelow over the notes stored after the matched one,
\* from index noteIdx on; acc is rangesInNextLine so far.
RECURSIVE ScanNotesBelow(_, _, _, _, _)
ScanNotesBelow(noteIdx, noteStartIdx, nextLineFirstAddr, cellAddrBellow, acc) ==
    IF noteIdx >= Len(Notes) THEN acc
    ELSE LET note == Notes[noteIdx + 1] IN
         IF nextLineFirstAddr >= note.RangeStartAddress
         THEN IF cellAddrBellow < note.RangeEndAddress
              THEN ScanNotesBelow(noteIdx + 1, noteStartIdx, nextLineFirstAddr, cellAddrBellow,
                       [RangeStartAddress |->
                            IF noteIdx = noteStartIdx THEN note.RangeStartAddress
                            ELSE acc.RangeStartAddress,
                        RangeEndAddress |-> note.RangeEndAddress,
                        isActive |-> note.isActive])
              ELSE acc
         ELSE ScanNotesBelow(noteIdx + 1, noteStartIdx, nextLineFirstAddr, cellAddrBellow, acc)

MutHasRangeBelowNoLastLineTest(lastLineAddr, note_idx, lineIdx, colIdx, line_max_idx) ==
    LET nextLineFirstAddr == (lastLineAddr + 1) % (SIZE_MAX + 1)
        cellAddrBellow    == (nextLineFirstAddr + colIdx) % (SIZE_MAX + 1)
        inNotes == note_idx < Len(Notes)
        rangesInNextLine ==
            IF inNotes
            THEN ScanNotesBelow(note_idx + 1, note_idx + 1, nextLineFirstAddr,
                                cellAddrBellow, NoRangesInNextLine)
            ELSE NoRangesInNextLine
        hasAnotherNoteBelow ==
            cellAddrBellow < rangesInNextLine.RangeEndAddress /\ rangesInNextLine.isActive
        hasSameNoteBelow ==
            /\ inNotes /\ nextLineFirstAddr < Notes[note_idx + 1].RangeEndAddress
            /\ cellAddrBellow < Notes[note_idx + 1].RangeEndAddress
    IN  hasSameNoteBelow \/ hasAnotherNoteBelow

MutHasRangeBelowIgnoresSameNote(lastLineAddr, note_idx, lineIdx, colIdx, line_max_idx) ==
    LET nextLineFirstAddr == (lastLineAddr + 1) % (SIZE_MAX + 1)
        cellAddrBellow    == (nextLineFirstAddr + colIdx) % (SIZE_MAX + 1)
        rangesInNextLine ==
            IF note_idx < Len(Notes)
            THEN ScanNotesBelow(note_idx + 1, note_idx + 1, nextLineFirstAddr,
                                cellAddrBellow, NoRangesInNextLine)
            ELSE NoRangesInNextLine
        hasAnotherNoteBelow ==
            cellAddrBellow < rangesInNextLine.RangeEndAddress /\ rangesInNextLine.isActive
    IN  lineIdx < line_max_idx /\ hasAnotherNoteBelow

MutHasRangeBelowIgnoresActive(lastLineAddr, note_idx, lineIdx, colIdx, line_max_idx) ==
    LET nextLineFirstAddr == (lastLineAddr + 1) % (SIZE_MAX + 1)
        cellAddrBellow    == (nextLineFirstAddr + colIdx) % (SIZE_MAX + 1)
        inNotes == note_idx < Len(Notes)
        noteDoesntEndInSameLine ==
            inNotes /\ nextLineFirstAddr < Notes[note_idx + 1].RangeEndAddress
        cellBelowInSameNote ==
            inNotes /\ cellAddrBellow < Notes[note_idx + 1].RangeEndAddress
        rangesInNextLine ==
            IF inNotes
            THEN ScanNotesBelow(note_idx + 1, note_idx + 1, nextLineFirstAddr,
                                cellAddrBellow, NoRangesInNextLine)
            ELSE NoRangesInNextLine
        hasAnotherNoteBelow == cellAddrBellow < rangesInNextLine.RangeEndAddress
        hasSameNoteBelow == noteDoesntEndInSameLine /\ cellBelowInSameNote
    IN  lineIdx < line_max_idx /\ (hasSameNoteBelow \/ hasAnotherNoteBelow)

\* hasRangeBelow(lastLineAddr, note_idx, lineIdx, colIdx, line_max_idx)
hasRangeBelow(lastLineAddr, note_idx, lineIdx, colIdx, line_max_idx) ==
    LET nextLineFirstAddr == (lastLineAddr + 1) % (SIZE_MAX + 1)
        cellAddrBellow    == (nextLineFirstAddr + colIdx) % (SIZE_MAX + 1)
        inNotes == note_idx < Len(Notes)
        noteDoesntEndInSameLine ==
            inNotes /\ nextLineFirstAddr < Notes[note_idx + 1].RangeEndAddress
        cellBelowInSameNote ==
            inNotes /\ cellAddrBellow < Notes[note_idx + 1].RangeEndAddress
        rangesInNextLine ==
            IF inNotes
            THEN ScanNotesBelow(note_idx + 1, note_idx + 1, nextLineFirstAddr,
                                cellAddrBellow, NoRangesInNextLine)
            ELSE NoRangesInNextLine
        cellAddrBellowBellongToRangesInNextLine ==
            cellAddrBellow < rangesInNextLine.RangeEndAddress
        cellAddrBellowRangeIsActive == rangesInNextLine.isActive
        hasAnotherNoteBelow ==
            cellAddrBellowBellongToRangesInNextLine /\ cellAddrBellowRangeIsActive
        hasSameNoteBelow == noteDoesntEndInSameLine /\ cellBelowInSameNote
        hasNoteBelow == hasSameNoteBelow \/ hasAnotherNoteBelow
        isNotLastLine == lineIdx < line_max_idx
    IN  isNotLastLine /\ hasNoteBelow

\* bool is_space_in_between of drawNoteRect
is_space_in_between(colIdx) ==
    /\ OptMidColsCount > 0
    /\ colIdx > 0
    /\ (colIdx + 1) < Cols
    /\ ((colIdx + 1) % OptMidColsCount) = 0

MutDrawNoteRectLeftOnlyStart(note_idx, addr, range_position, colIdx, lineIdx, line_max_idx) ==
    LET lastLineAddr  == (addr + (Cols - colIdx - 1)) % (SIZE_MAX + 1)
        notRangeBelow == ~hasRangeBelow(lastLineAddr, note_idx, lineIdx, colIdx, line_max_idx)
    IN  {"Top"}
        \cup (IF is_space_in_between(colIdx) \/ notRangeBelow THEN {"Bottom"} ELSE {})
        \cup (IF range_position = "Start" THEN {"Left"} ELSE {})
        \cup (IF range_position = "End" \/ addr = lastLineAddr THEN {"Right"} ELSE {})

\* The lines drawNoteRect adds to the draw list for one cell of a note, as
\* the set of the cell's edges it draws.
drawNoteRect(note_idx, addr, range_position, colIdx, lineIdx, line_max_idx) ==
    LET firstLineAddr == addr - colIdx
        lastLineAddr  == (addr + (Cols - colIdx - 1)) % (SIZE_MAX + 1)
        notRangeBelow == ~hasRangeBelow(lastLineAddr, note_idx, lineIdx, colIdx, line_max_idx)
    IN  {"Top"}
        \cup (IF is_space_in_between(colIdx) \/ notRangeBelow THEN {"Bottom"} ELSE {})
        \cup (IF range_position = "Start" \/ addr = firstLineAddr THEN {"Left"} ELSE {})
        \cup (IF range_position = "End" \/ addr = lastLineAddr THEN {"Right"} ELSE {})

\* One cell of the hexadecimal grid: the lookup of its address in Notes and,
\* on a match, the outline drawNoteRect draws for it.
DrawCell(addr, DisplayStart, DisplayEnd) ==
    LET line_i       == addr \div Cols
        colIdx       == addr % Cols
        line_idx     == line_i - DisplayStart
        line_max_idx == (DisplayEnd - DisplayStart) - 1
        r == IsInRange(Notes, addr, UninitColor, SIZE_MAX)
    IN  [line_i |-> line_i, colIdx |-> colIdx,
         line_idx |-> line_idx, line_max_idx |-> line_max_idx,
         range_position |-> r.pos, note_idx |-> r.idx,
         edges |-> IF r.pos # "NotInRange"
                   THEN drawNoteRect(r.idx, addr, r.pos, colIdx, line_idx, line_max_idx)
                   ELSE {}]

-----------------------------------------------------------------------------
(* DrawPreviewData: decoding and formatting a value of the buffer *)

\* A text is the sequence of its characters; a byte is a number 0 .. 255.
\* A decoded value is the sequence of its bytes by significance, the least
\* significant byte first.

\* static size_t const sizes[] = { 1, 1, 2, 2, 4, 4, 8, 8, sizeof(_Float16), ... }
DataTypeGetSize(data_type) == <<1, 1, 2, 2, 4, 4, 8, 8, 2, 4, 8>>[data_type + 1]

MutIsBigEndian == ~HostLittleEndian

\* uint16_t x = 1; memcpy(c, &x, 2); return c[0] != 0: the first byte of the
\* 16-bit value 1 is not zero on a little-endian machine.
IsBigEndian == HostLittleEndian

Reverse(s) == [i \in 1 .. Len(s) |-> s[Len(s) - i + 1]]

\* The first s bytes of dst after the copy of the first s bytes of src, in
\* reverse order, the rest of dst as it was.
ReversedCopy(dst, src, s) ==
    [i \in 1 .. Len(dst) |-> IF i <= s THEN src[s - i + 1] ELSE dst[i]]

\* memcpy(_dst, _src, s)
Memcpy(dst, src, s) ==
    [i \in 1 .. Len(dst) |-> IF i <= s THEN src[i] ELSE dst[i]]

EndianessCopyBigEndian(dst, src, s, is_little_endian) ==
    IF is_little_endian # 0 THEN ReversedCopy(dst, src, s) ELSE Memcpy(dst, src, s)

EndianessCopyLittleEndian(dst, src, s, is_little_endian) ==
    IF is_little_endian # 0 THEN Memcpy(dst, src, s) ELSE ReversedCopy(dst, src, s)

\* fp = IsBigEndian() ? EndianessCopyBigEndian : EndianessCopyLittleEndian;
\* return fp(dst, src, size, PreviewEndianess)
EndianessCopy(dst, src, size) ==
    IF IsBigEndian
    THEN EndianessCopyBigEndian(dst, src, size, PreviewEndianess)
    ELSE EndianessCopyLittleEndian(dst, src, size, PreviewEndianess)

\* The value an object of the machine holds: its bytes by significance.
NativeValue(memory) == IF HostLittleEndian THEN memory ELSE Reverse(memory)

\* The bit characters of one byte, bit 7 first.
BitChars(byte) ==
    [i \in 1 .. 8 |-> IF (byte \div (2 ^ (8 - i))) % 2 = 1 THEN "1" ELSE "0"]

\* FormatBinary(buf, width): for (j = n - 1; j >= 0; --j) the eight bits of
\* buf[j] and then a space.
RECURSIVE FormatBinaryFrom(_, _)
FormatBinaryFrom(buf, j) ==
    IF j < 0 THEN <<>>
    ELSE BitChars(buf[j + 1]) \o <<" ">> \o FormatBinaryFrom(buf, j - 1)

FormatBinary(buf, width) == FormatBinaryFrom(buf, (width \div 8) - 1)

HexDigits == <<"0", "1", "2", "3", "4", "5", "6", "7",
               "8", "9", "a", "b", "c", "d", "e", "f">>

\* The two digits "%02x" prints for one byte.
HexOfByte(byte) == <<HexDigits[(byte \div 16) + 1], HexDigits[(byte % 16) + 1]>>

\* "%0Nx" of an unsigned value of N / 2 bytes: the digits of its bytes, the
\* most significant byte first.
RECURSIVE HexOfValue(_, _)
HexOfValue(value, k) ==
    IF k = 0 THEN <<>> ELSE HexOfByte(value[k]) \o HexOfValue(value, k - 1)

\* The integer cases of the switch for DataFormat_Hex: "0x%02x", "0x%04x",
\* "0x%08x", "0x%016llx" of the decoded value.
FormatHexInteger(value) == <<"0", "x">> \o HexOfValue(value, Len(value))

Zeros(n) == [i \in 1 .. n |-> 0]

\* The bits of a value, the most significant bit first.
BitsOfByte(byte) == [i \in 1 .. 8 |-> (byte \div (2 ^ (8 - i))) % 2]

RECURSIVE BitsOfValue(_, _)
BitsOfValue(value, k) ==
    IF k = 0 THEN <<>> ELSE BitsOfByte(value[k]) \o BitsOfValue(value, k - 1)

\* The number a short sequence of bits (most significant first) denotes.
RECURSIVE NatOfBits(_)
NatOfBits(bits) ==
    IF bits = <<>> THEN 0
    ELSE 2 * NatOfBits(SubSeq(bits, 1, Len(bits) - 1)) + bits[Len(bits)]

\* The decimal digits of a natural number.
DecDigits == <<"0", "1", "2", "3", "4", "5", "6", "7", "8", "9">>

RECURSIVE DecOfNat(_)
DecOfNat(n) ==
    IF n < 10 THEN <<DecDigits[n + 1]>>
    ELSE DecOfNat(n \div 10) \o <<DecDigits[(n % 10) + 1]>>

\* The hexadecimal digits of a sequence of bits, padded with zero bits on
\* the right to whole digits.
RECURSIVE HexOfBits(_)
HexOfBits(bits) ==
    IF bits = <<>> THEN <<>>
    ELSE IF Len(bits) < 4 THEN HexOfBits(bits \o <<0>>)
    ELSE <<HexDigits[NatOfBits(SubSeq(bits, 1, 4)) + 1]>>
         \o HexOfBits(SubSeq(bits, 5, Len(bits)))

RECURSIVE StripTrailingZeros(_)
StripTrailingZeros(digits) ==
    IF digits # <<>> /\ digits[Len(digits)] = "0"
    THEN StripTrailingZeros(SubSeq(digits, 1, Len(digits) - 1))
    ELSE digits

\* The position of the first 1 of a sequence of bits that has one.
FirstOne(bits) == CHOOSE k \in 1 .. Len(bits) : bits[k] = 1 /\ \A j \in 1 .. k - 1 : bits[j] = 0

\* "%a" of a binary floating-point value with expBits exponent bits, after
\* its promotion to double (exact for _Float16 and float): sign, "0x1",
\* the digits of the fraction without trailing zeros, "p" and the decimal
\* exponent.  Zero is "0x0p+0"; a subnormal double keeps the leading digit 0
\* and the exponent -1022; infinities and NaNs are "inf" and "nan".
FormatHexFloat(value, expBits) ==
    LET bits     == BitsOfValue(value, Len(value))
        sign     == IF bits[1] = 1 THEN <<"-">> ELSE <<>>
        expField == NatOfBits(SubSeq(bits, 2, 1 + expBits))
        mant     == SubSeq(bits, 2 + expBits, Len(bits))
        bias     == (2 ^ (expBits - 1)) - 1
        isZero   == \A i \in 1 .. Len(mant) : mant[i] = 0
        Exp(e)   == <<"p">> \o (IF e < 0 THEN <<"-">> \o DecOfNat(0 - e)
                                 ELSE <<"+">> \o DecOfNat(e))
        Frac(f)  == LET d == StripTrailingZeros(HexOfBits(f)) IN
                    IF d = <<>> THEN <<>> ELSE <<".">> \o d
    IN  IF expField = (2 ^ expBits) - 1
        THEN sign \o (IF isZero THEN <<"i", "n", "f">> ELSE <<"n", "a", "n">>)
        ELSE IF expField = 0 /\ isZero
        THEN sign \o <<"0", "x", "0">> \o Exp(0)
        ELSE IF expField > 0
        THEN sign \o <<"0", "x", "1">> \o Frac(mant) \o Exp(expField - bias)
        ELSE IF Len(value) = 8
        THEN sign \o <<"0", "x", "0">> \o Frac(mant) \o Exp(1 - bias)
        ELSE LET k == FirstOne(mant) IN
             sign \o <<"0", "x", "1">> \o Frac(SubSeq(mant, k + 1, Len(mant)))
                  \o Exp((1 - bias) - k)

\* The switch of DrawPreviewData for DataFormat_Hex.
FormatHex(data_type, value) ==
    IF data_type <= DataType_U64 THEN FormatHexInteger(value)
    ELSE IF data_type = DataType_HalfFloat THEN FormatHexFloat(value, 5)
    ELSE IF data_type = DataType_Float THEN FormatHexFloat(value, 8)
    ELSE FormatHexFloat(value, 11)

\* size = addr + elem_size > mem_size ? mem_size - addr : elem_size
PreviewReadSize(addr, data_type) ==
    LET elem_size == DataTypeGetSize(data_type) IN
    IF (addr + elem_size) % (SIZE_MAX + 1) > mem_size
    THEN (mem_size - addr) % (SIZE_MAX + 1)
    ELSE elem_size

\* DrawPreviewData(addr, mem_data, mem_size, data_type, data_format, ...) on
\* the buffer, ReadFn being null: the number of bytes read, the addresses
\* read, the decoded value and the text written to out_buf.  For
\* DataFormat_Bin the bytes go through EndianessCopy into binbuf and no
\* value is decoded.
DrawPreviewData(addr, data_type, data_format) ==
    LET elem_size == DataTypeGetSize(data_type)
        size      == PreviewReadSize(addr, data_type)
        buf       == [i \in 1 .. size |-> mem_data[addr + i]]
        reads     == { addr + i : i \in 0 .. size - 1 }
        binbuf    == EndianessCopy(Zeros(size), buf, size)
        value     == NativeValue(EndianessCopy(Zeros(elem_size), buf, size))
    IN  [called |-> TRUE, data_format |-> data_format, size |-> size, reads |-> reads,
         value |-> IF data_format = DataFormat_Bin THEN <<>> ELSE value,
         out_buf |-> IF data_format = DataFormat_Bin
                     THEN FormatBinary(binbuf, size * 8)
                     ELSE FormatHex(data_type, value)]

NoPreview ==
    [called |-> FALSE, data_format |-> DataFormat_Hex, size |-> 0, reads |-> {},
     value |-> <<>>, out_buf |-> <<>>]

-----------------------------------------------------------------------------
(* The converter panel: scanning the text *)

\* A value of 8 bytes is the sequence of its bytes, least significant first.
Ones(n) == [i \in 1 .. n |-> 255]

RECURSIVE Increment(_)
Increment(v) ==
    IF v = <<>> THEN <<>>
    ELSE IF v[1] = 255 THEN <<0>> \o Increment(Tail(v))
    ELSE <<v[1] + 1>> \o Tail(v)

\* The negation of a value in two's complement.
Negate(v) == Increment([i \in 1 .. Len(v) |-> 255 - v[i]])

UpperHexDigits == <<"0", "1", "2", "3", "4", "5", "6", "7",
                    "8", "9", "A", "B", "C", "D", "E", "F">>

\* The value of a hexadecimal digit of either case; 16 for any other character.
HexDigitValue(c) ==
    IF \E i \in 1 .. 16 : HexDigits[i] = c
    THEN (CHOOSE i \in 1 .. 16 : HexDigits[i] = c) - 1
    ELSE IF \E i \in 1 .. 16 : UpperHexDigits[i] = c
    THEN (CHOOSE i \in 1 .. 16 : UpperHexDigits[i] = c) - 1
    ELSE 16

\* The white space of the text that scanf skips first.
RECURSIVE SkipSpace(_)
SkipSpace(text) ==
    IF text # <<>> /\ text[1] = " " THEN SkipSpace(Tail(text)) ELSE text

\* The length of the longest prefix of text made of digits of the base.
RECURSIVE DigitRun(_, _)
DigitRun(text, base) ==
    IF text # <<>> /\ HexDigitValue(text[1]) < base
    THEN 1 + DigitRun(Tail(text), base)
    ELSE 0

RECURSIVE StripLeadingZeros(_)
StripLeadingZeros(digits) ==
    IF Len(digits) > 1 /\ digits[1] = "0" THEN StripLeadingZeros(Tail(digits)) ELSE digits

\* The 8 bytes of the number that at most 16 hexadecimal digits denote.
BytesOfHex(digits) ==
    LET p == [i \in 1 .. 16 - Len(digits) |-> "0"] \o digits
    IN  [k \in 1 .. 8 |-> 16 * HexDigitValue(p[17 - 2 * k]) + HexDigitValue(p[18 - 2 * k])]

\* The outcome of a scan: whether sscanf assigned, and the 8 bytes assigned.
ScanFailed == [ok |-> FALSE, value |-> <<>>]
ScanAssigned(value) == [ok |-> TRUE, value |-> value]

\* sscanf(text, "%zX", &v): white space, an optional sign, an optional "0x"
\* or "0X", then the longest run of hexadecimal digits; what follows the run
\* is left unread.  No digit: nothing is assigned.  A "0x" without a digit
\* after it is either a failure or the number 0, by the C library.  A number
\* of more than 64 bits cannot be represented and the behaviour is
\* undefined: the library either saturates or keeps the low 64 bits.
ScanHex(text) ==
    LET t0 == SkipSpace(text)
        neg == t0 # <<>> /\ t0[1] = "-"
        t1 == IF t0 # <<>> /\ t0[1] \in {"+", "-"} THEN Tail(t0) ELSE t0
        hasPrefix == Len(t1) >= 2 /\ t1[1] = "0" /\ t1[2] \in {"x", "X"}
        prefixDigits == hasPrefix /\ Len(t1) >= 3 /\ HexDigitValue(t1[3]) < 16
        t2 == IF prefixDigits THEN SubSeq(t1, 3, Len(t1)) ELSE t1
        n == DigitRun(t2, 16)
        digits == StripLeadingZeros(SubSeq(t2, 1, n))
        Signed(v) == IF neg THEN Negate(v) ELSE v
    IN  IF n = 0 THEN {ScanFailed}
        ELSE IF hasPrefix /\ ~prefixDigits THEN {ScanFailed, ScanAssigned(Zeros(8))}
        ELSE IF Len(digits) > 16
        THEN {ScanAssigned(Ones(8)),
              ScanAssigned(Signed(BytesOfHex(SubSeq(digits, Len(digits) - 15, Len(digits)))))}
        ELSE {ScanAssigned(Signed(BytesOfHex(digits)))}

-----------------------------------------------------------------------------
(* The converter panel: numbers of any size *)

\* A natural number of any size is held as the sequence of its limbs in
\* base 10000, or of its bytes, or of its bits, the most significant first
\* in all three; <<>> is 0.
LimbBase == 10000

RECURSIVE DropZeros(_)
DropZeros(s) == IF s # <<>> /\ s[1] = 0 THEN DropZeros(Tail(s)) ELSE s

\* limbs * m + a, for small m and a.
RECURSIVE LimbsMulAdd(_, _, _)
LimbsMulAdd(limbs, m, a) ==
    IF limbs = <<>> THEN (IF a = 0 THEN <<>> ELSE <<a>>)
    ELSE LimbsMulAdd(SubSeq(limbs, 1, Len(limbs) - 1), m,
                     (limbs[Len(limbs)] * m + a) \div LimbBase)
             \o <<(limbs[Len(limbs)] * m + a) % LimbBase>>

\* (carry * LimbBase^Len(limbs) + limbs) divided by a small m: the limbs of
\* the quotient, as many as limbs has, and the remainder.
RECURSIVE LimbsDivMod(_, _, _)
LimbsDivMod(limbs, m, carry) ==
    IF limbs = <<>> THEN [q |-> <<>>, r |-> carry]
    ELSE LET rest == LimbsDivMod(Tail(limbs), m, (carry * LimbBase + limbs[1]) % m)
         IN  [q |-> <<(carry * LimbBase + limbs[1]) \div m>> \o rest.q, r |-> rest.r]

\* The limbs of the number a sequence of bytes denotes.
RECURSIVE LimbsOfBytes(_)
LimbsOfBytes(bytes) ==
    IF bytes = <<>> THEN <<>>
    ELSE LimbsMulAdd(LimbsOfBytes(SubSeq(bytes, 1, Len(bytes) - 1)), 256, bytes[Len(bytes)])

\* The bytes of the number a sequence of limbs denotes, without leading zeros.
RECURSIVE BytesOfLimbs(_)
BytesOfLimbs(limbs) ==
    IF DropZeros(limbs) = <<>> THEN <<>>
    ELSE BytesOfLimbs(LimbsDivMod(DropZeros(limbs), 256, 0).q)
             \o <<LimbsDivMod(DropZeros(limbs), 256, 0).r>>

\* The limbs of a sequence of decimal digits (numbers 0 .. 9).
LimbsOfDigits(digits) ==
    LET n == (Len(digits) + 3) \div 4
        p == Zeros(4 * n - Len(digits)) \o digits
    IN  [i \in 1 .. n |-> 1000 * p[4 * i - 3] + 100 * p[4 * i - 2] + 10 * p[4 * i - 1] + p[4 * i]]

\* The decimal digits of a sequence of limbs, four for each limb.
DigitsOfLimbs(limbs) ==
    [i \in 1 .. 4 * Len(limbs) |->
        (limbs[(i + 3) \div 4] \div (10 ^ (3 - ((i - 1) % 4)))) % 10]

\* The characters of a sequence of decimal digits.
DecText(digits) == [i \in 1 .. Len(digits) |-> DecDigits[digits[i] + 1]]

\* The digits of a sequence of decimal characters.
DecValues(chars) == [i \in 1 .. Len(chars) |-> HexDigitValue(chars[i])]

\* The bits and the bytes of each other, for whole bytes.
BitsOfBytes(bytes) == [i \in 1 .. 8 * Len(bytes) |->
                          (bytes[(i + 7) \div 8] \div (2 ^ (7 - ((i - 1) % 8)))) % 2]

BytesOfBits(bits) == [k \in 1 .. Len(bits) \div 8 |-> NatOfBits(SubSeq(bits, 8 * k - 7, 8 * k))]

\* A value of the program (its bytes, least significant first) as a number,
\* and back, at the width of n bytes.
NumberOf(value) == DropZeros(Reverse(value))

ValueOf(bytes, n) ==
    LET b == DropZeros(bytes)
    IN  Reverse(Zeros(n - Len(b)) \o b)

\* "%lu" of a value: its decimal digits.
DecimalOf(value) ==
    LET d == DropZeros(DigitsOfLimbs(LimbsOfBytes(NumberOf(value))))
    IN  IF d = <<>> THEN <<"0">> ELSE DecText(d)

-----------------------------------------------------------------------------
(* The converter panel: scanning and printing decimal text *)

\* ImSnprintf(ValueConverterInputBuf, 32, ...): at most 31 characters.
Truncate(text) == IF Len(text) > 31 THEN SubSeq(text, 1, 31) ELSE text

\* "%lX" of a value: its hexadecimal digits in upper case, without leading zeros.
PrintLX(value) ==
    LET d == HexOfValue(value, Len(value))
    IN  StripLeadingZeros([i \in 1 .. Len(d) |-> UpperHexDigits[HexDigitValue(d[i]) + 1]])

\* "%lu" and "%ld" of a value.
PrintLu(value) == DecimalOf(value)

PrintLd(value) ==
    IF value[Len(value)] >= 128 THEN <<"-">> \o DecimalOf(Negate(value)) ELSE DecimalOf(value)

\* sscanf(text, "%ld" or "%lu", &v): white space, an optional sign, then the
\* longest run of decimal digits; what follows is left unread.  No digit:
\* nothing is assigned.  A number that the type cannot represent is
\* undefined behaviour: the library either saturates or keeps the low 64
\* bits.
ScanDecimal(text, signed) ==
    LET t0 == SkipSpace(text)
        neg == t0 # <<>> /\ t0[1] = "-"
        t1 == IF t0 # <<>> /\ t0[1] \in {"+", "-"} THEN Tail(t0) ELSE t0
        n == DigitRun(t1, 10)
        bytes == BytesOfLimbs(LimbsOfDigits(DecValues(SubSeq(t1, 1, n))))
        fits == IF signed
                THEN \/ Len(bytes) < 8
                     \/ Len(bytes) = 8 /\ bytes[1] < 128
                     \/ neg /\ bytes = <<128>> \o Zeros(7)
                ELSE Len(bytes) <= 8
        low == IF Len(bytes) > 8 THEN SubSeq(bytes, Len(bytes) - 7, Len(bytes)) ELSE bytes
        Signed(v) == IF neg THEN Negate(v) ELSE v
        limit == IF ~signed THEN Ones(8)
                 ELSE IF neg THEN Zeros(7) \o <<128>>
                 ELSE [i \in 1 .. 8 |-> IF i = 8 THEN 127 ELSE 255]
    IN  IF n = 0 THEN {ScanFailed}
        ELSE IF fits THEN {ScanAssigned(Signed(ValueOf(low, 8)))}
        ELSE {ScanAssigned(limit), ScanAssigned(Signed(ValueOf(low, 8)))}

\* The bits of n at the width w.
NatBits(n, w) == [i \in 1 .. w |-> (n \div (2 ^ (w - i))) % 2]

\* The bytes, least significant first, of the binary floating-point number
\* with the sign, the exponent field and the fraction field given.
PackFloat(neg, expField, expBits, fraction) ==
    Reverse(BytesOfBits(<<IF neg THEN 1 ELSE 0>> \o NatBits(expField, expBits) \o fraction))

\* The first n bytes of the binary expansion of the decimal fraction held
\* in limbs, and the limbs of what is left of the fraction.
RECURSIVE FractionBytes(_, _)
FractionBytes(limbs, n) ==
    IF n = 0 THEN [bytes |-> <<>>, rest |-> limbs]
    ELSE LET prod == LimbsMulAdd(limbs, 256, 0)
             over == Len(prod) > Len(limbs)
             r    == FractionBytes(IF over THEN Tail(prod) ELSE prod, n - 1)
         IN  [bytes |-> <<IF over THEN prod[1] ELSE 0>> \o r.bytes, rest |-> r.rest]

\* The number with the bits given, pointPos of them before the binary point
\* and sticky telling whether more non-zero bits follow, rounded to the
\* nearest floating-point number of p significant bits, ties to even.
RoundFloat(neg, bits, pointPos, sticky0, expBits, p) ==
    LET k == FirstOne(bits)
        At(i) == IF i <= Len(bits) THEN bits[i] ELSE 0
        m == [i \in 1 .. p |-> At(k + i - 1)]
        sticky == sticky0 \/ \E i \in k + p + 1 .. Len(bits) : bits[i] = 1
        up == At(k + p) = 1 /\ (sticky \/ m[p] = 1)
        allOnes == \A i \in 1 .. p : m[i] = 1
        inc == [i \in 1 .. p |-> IF \A j \in i + 1 .. p : m[j] = 1 THEN 1 - m[i] ELSE m[i]]
        m2 == IF ~up THEN m ELSE IF allOnes THEN <<1>> \o Zeros(p - 1) ELSE inc
        e  == (pointPos - k) + (IF up /\ allOnes THEN 1 ELSE 0)
        bias == (2 ^ (expBits - 1)) - 1
    IN  IF e > bias THEN PackFloat(neg, (2 ^ expBits) - 1, expBits, Zeros(p - 1))
        ELSE PackFloat(neg, e + bias, expBits, Tail(m2))

\* Whether text starts with the letters of word, in either case.
StartsWith(text, word) ==
    Len(text) >= Len(word) /\ \A i \in 1 .. Len(word) : text[i] \in word[i]

\* sscanf(text, "%f" or "%lf", &v) for a float (expBits 8, p 24) or a double
\* (expBits 11, p 53): white space, an optional sign, then "inf", "nan" or
\* decimal digits with an optional point; what follows is left unread.
\* Nothing of that: nothing is assigned.  A text of at most 31 characters
\* of this shape is neither too large nor too small for either format.
\* Texts with an exponent or in hexadecimal, which scanf reads too, are not
\* among the texts of the model.
ScanFloat(text, expBits, p) ==
    LET t0 == SkipSpace(text)
        neg == t0 # <<>> /\ t0[1] = "-"
        t1 == IF t0 # <<>> /\ t0[1] \in {"+", "-"} THEN Tail(t0) ELSE t0
        ni == DigitRun(t1, 10)
        hasPoint == Len(t1) > ni /\ t1[ni + 1] = "."
        t2 == IF hasPoint THEN SubSeq(t1, ni + 2, Len(t1)) ELSE <<>>
        nf == DigitRun(t2, 10)
        intBits == DropZeros(BitsOfBytes(BytesOfLimbs(
                       LimbsOfDigits(DecValues(SubSeq(t1, 1, ni))))))
        fracLimbs == LimbsOfDigits(DecValues(SubSeq(t2, 1, nf)) \o Zeros((4 - (nf % 4)) % 4))
        fr == FractionBytes(fracLimbs, (p + 8) \div 8 + (10 * nf) \div 24 + 2)
        bits == intBits \o BitsOfBytes(fr.bytes)
        sticky == DropZeros(fr.rest) # <<>>
    IN  IF StartsWith(t1, <<{"i", "I"}, {"n", "N"}, {"f", "F"}>>)
        THEN {ScanAssigned(PackFloat(neg, (2 ^ expBits) - 1, expBits, Zeros(p - 1)))}
        ELSE IF StartsWith(t1, <<{"n", "N"}, {"a", "A"}, {"n", "N"}>>)
        THEN {ScanAssigned(PackFloat(neg, (2 ^ expBits) - 1, expBits, <<1>> \o Zeros(p - 2)))}
        ELSE IF ni + nf = 0 THEN {ScanFailed}
        ELSE IF \A i \in 1 .. Len(bits) : bits[i] = 0
        THEN {ScanAssigned(PackFloat(neg, 0, expBits, Zeros(p - 1)))}
        ELSE {ScanAssigned(RoundFloat(neg, bits, Len(intBits), sticky, expBits, p))}

\* Bits padded on the left to whole bytes.
PadBits(bits) == Zeros((8 - (Len(bits) % 8)) % 8) \o bits

\* The six decimal digits of a number below 1000000.
SixDigits(n) == [i \in 1 .. 6 |-> DecDigits[((n \div (10 ^ (6 - i))) % 10) + 1]]

\* "%lf" of the double whose bits are the 8 bytes of value: the sign, the
\* digits of the integer part, the point and six digits of the fraction,
\* rounded to nearest, ties to even.  Zero, the subnormal numbers and the
\* numbers below 2^-21 print as "0.000000"; infinities and NaNs as "inf"
\* and "nan".
PrintLf(value) ==
    LET bits == BitsOfValue(value, 8)
        sign == IF bits[1] = 1 THEN <<"-">> ELSE <<>>
        expField == NatOfBits(SubSeq(bits, 2, 12))
        mant == SubSeq(bits, 13, 64)
        e == expField - 1023
        M == <<1>> \o mant
        intBits  == IF e < 0 THEN <<>>
                    ELSE IF e >= 52 THEN M \o Zeros(e - 52)
                    ELSE SubSeq(M, 1, e + 1)
        fracBits == IF e >= 52 THEN <<>>
                    ELSE IF e < 0 THEN Zeros((0 - e) - 1) \o M
                    ELSE SubSeq(M, e + 2, 53)
        j == Len(fracBits)
        \* the fraction times 1000000, as bits
        scaled == BitsOfBytes(BytesOfLimbs(
                      LimbsMulAdd(LimbsMulAdd(LimbsMulAdd(
                          LimbsOfBytes(BytesOfBits(PadBits(fracBits))), 100, 0), 100, 0), 100, 0)))
        sb  == Zeros(j) \o scaled
        q   == NatOfBits(DropZeros(SubSeq(sb, 1, Len(sb) - j)))
        rem == SubSeq(sb, Len(sb) - j + 1, Len(sb))
        up  == j > 0 /\ rem[1] = 1 /\ ((\E i \in 2 .. j : rem[i] = 1) \/ q % 2 = 1)
        q2  == q + (IF up THEN 1 ELSE 0)
        intLimbs == LimbsMulAdd(LimbsOfBytes(BytesOfBits(PadBits(intBits))), 1,
                                IF q2 = 1000000 THEN 1 ELSE 0)
        intDigits == DropZeros(DigitsOfLimbs(intLimbs))
    IN  IF expField = 2047
        THEN sign \o (IF \A i \in 1 .. 52 : mant[i] = 0 THEN <<"i", "n", "f">>
                      ELSE <<"n", "a", "n">>)
        ELSE IF expField = 0 \/ e < -21
        THEN sign \o <<"0", ".", "0", "0", "0", "0", "0", "0">>
        ELSE Truncate(sign \o (IF intDigits = <<>> THEN <<"0">> ELSE DecText(intDigits))
                           \o <<".">> \o SixDigits(q2 % 1000000))

-----------------------------------------------------------------------------
(* DrawPreviewLine: the converter panel *)

\* The combo "##combo_convert_format" while it is open: the text it leaves
\* in ValueConverterInputBuf when the format goes from prev_format to format.
ConvertFormatText(prev_format, format, type, value, text) ==
    IF prev_format = format THEN text
    ELSE IF format = DataFormat_Hex THEN Truncate(PrintLX(value))
    ELSE IF type % 2 = 0 THEN Truncate(PrintLd(value))
    ELSE Truncate(PrintLu(value))

\* The combo "##combo_convert_type" while it is open: the text it leaves in
\* ValueConverterInputBuf when the type goes from prev_type to type.
ConvertTypeText(prev_type, type, format, value, text) ==
    IF format = DataFormat_Hex THEN Truncate(PrintLX(value))
    ELSE IF prev_type >= DataType_HalfFloat
    THEN IF type <= DataType_U64
         THEN (IF type % 2 = 0 THEN Truncate(PrintLd(value)) ELSE Truncate(PrintLu(value)))
         ELSE text
    ELSE IF type <= DataType_U64
    THEN (IF prev_type % 2 = 0 /\ type % 2 = 1 THEN Truncate(PrintLu(value)) ELSE text)
    ELSE Truncate(PrintLf(value))

\* sscanf(..., "%f", (f32*)&ValueToConvert): the 4 bytes at the address of
\* ValueToConvert are its low half on a little-endian machine and its high
\* half on a big-endian one.
WriteFloat(value, f) ==
    IF HostLittleEndian THEN f \o SubSeq(value, 5, 8) ELSE SubSeq(value, 1, 4) \o f

\* The scan of the text into ValueToConvert: the outcomes it may have, each
\* with the value ValueToConvert holds after it.  For DataType_HalfFloat in
\* decimal the scan goes into a local variable.
ConvertScan(text, type, format, value) ==
    IF format = DataFormat_Hex
    THEN { [ok |-> p.ok, value |-> IF p.ok THEN p.value ELSE value] : p \in ScanHex(text) }
    ELSE IF type = DataType_HalfFloat
    THEN { [ok |-> p.ok, value |-> value] : p \in ScanFloat(text, 8, 24) }
    ELSE IF type = DataType_Float
    THEN { [ok |-> p.ok, value |-> IF p.ok THEN WriteFloat(value, p.value) ELSE value] :
             p \in ScanFloat(text, 8, 24) }
    ELSE IF type = DataType_Double
    THEN { [ok |-> p.ok, value |-> IF p.ok THEN p.value ELSE value] :
             p \in ScanFloat(text, 11, 53) }
    ELSE { [ok |-> p.ok, value |-> IF p.ok THEN p.value ELSE value] :
             p \in ScanDecimal(text, type % 2 = 0) }

-----------------------------------------------------------------------------
(* DrawContents: the addresses a frame selects *)

\* The input of one frame: event is "none", "hex" (the mouse is clicked on
\* the hex cell of address arg), "ascii" (the mouse is released on the ASCII
\* column, at address arg = addr + offset), "goto" (Enter in the address
\* field, whose text sscanf reads as arg, or does not read if ~scanned) or
\* "header" (a click on the header "Preview Data").
FrameInput(event, arg, scanned) == [event |-> event, arg |-> arg, scanned |-> scanned]

\* DrawContents(mem_data, mem_size, base_display_addr) with the input in:
\* the fields it leaves and the address it previews.
DrawContents(in, base_display_addr) ==
    LET \* if (ReadOnly || DataEditingAddr >= mem_size) DataEditingAddr = max
        edit0 == IF ReadOnly \/ DataEditingAddr >= mem_size THEN SIZE_MAX ELSE DataEditingAddr
        \* if (DataPreviewAddr >= mem_size) DataPreviewAddr = max
        prev0 == IF DataPreviewAddr >= mem_size THEN SIZE_MAX ELSE DataPreviewAddr
        \* the hex cell: if (!ReadOnly && hovered && clicked) data_editing_addr_next = addr
        hexClick == in.event = "hex" /\ ~ReadOnly
        data_editing_addr_next == IF hexClick THEN in.arg ELSE SIZE_MAX
        \* the ASCII column: if (InvisibleButton("ascii")) DataEditingAddr = DataPreviewAddr = ...
        asciiClick == OptShowAscii /\ in.event = "ascii"
        edit1 == IF asciiClick THEN in.arg ELSE edit0
        prev1 == IF asciiClick THEN in.arg ELSE prev0
        \* data_next is never set; else if (data_editing_addr_next != max)
        edit2 == IF data_editing_addr_next # SIZE_MAX THEN data_editing_addr_next ELSE edit1
        prev2 == IF data_editing_addr_next # SIZE_MAX THEN data_editing_addr_next ELSE prev1
        \* DrawOptionsLine: the address field, then the pending goto
        entered == OptShowOptions /\ in.event = "goto" /\ in.scanned
        goto1 == IF entered THEN (in.arg - base_display_addr) % (SIZE_MAX + 1) ELSE GotoAddr
        jump  == OptShowOptions /\ goto1 # SIZE_MAX /\ goto1 < mem_size
        edit3 == IF jump THEN goto1 ELSE edit2
        prev3 == IF jump THEN goto1 ELSE prev2
        \* DrawPreviewLine: the header, then DrawPreviewData if there is a value
        open == IF in.event = "header" THEN ~PreviewHeaderOpen ELSE PreviewHeaderOpen
    IN  [Cols |-> IF Cols < 1 THEN 1 ELSE Cols,
         DataEditingAddr |-> edit3,
         DataPreviewAddr |-> prev3,
         DataEditingTakeFocus |-> DataEditingTakeFocus \/ hexClick \/ asciiClick \/ jump,
         GotoAddr |-> IF OptShowOptions THEN SIZE_MAX ELSE GotoAddr,
         HighlightMin |-> IF entered THEN SIZE_MAX ELSE HighlightMin,
         HighlightMax |-> IF entered THEN SIZE_MAX ELSE HighlightMax,
         PreviewHeaderOpen |-> open,
         preview_addr |-> IF open THEN prev3 ELSE SIZE_MAX]

-----------------------------------------------------------------------------
(* The inputs of the lookup specification *)

\* A range; the i-th range of an input sequence has the colour i.
Range(start, end, active, color) ==
    [RangeStartAddress |-> start, RangeEndAddress |-> end,
     RangeColor |-> color, isActive |-> active]

RawRange == [s : 0 .. MaxRangeAddr, e : 0 .. MaxRangeAddr + 1, a : BOOLEAN]

\* Every sequence of at most MaxRanges ranges: any order, overlapping or
\* not, well-formed or not (the notes table lets the user type any bounds).
SmallRangeSeqs ==
    UNION { { [i \in 1 .. n |-> Range(f[i].s, f[i].e, f[i].a, i)] :
              f \in [1 .. n -> RawRange] } : n \in 0 .. MaxRanges }

BigSizes == (LINEAR_SCAN_LIMIT - 1) .. (LINEAR_SCAN_LIMIT + BigExtra)
BigShapes == {<<1, 1>>, <<3, 1>>, <<3, 3>>, <<3, 4>>, <<1, 3>>}
BigInactiveEvery == {0, 3}

\* n ranges of length len, one every stride addresses; with every > 0 each
\* every-th range is inactive; descending lays them out in reverse order.
BigSeq(n, stride, len, every, descending) ==
    [i \in 1 .. n |->
        LET k == IF descending THEN n - i ELSE i - 1 IN
        Range(k * stride, k * stride + len,
              ~(every > 0 /\ (k % every) = every - 1), i)]

BigRangeSeqs ==
    { BigSeq(n, sh[1], sh[2], ev, d) :
        n \in BigSizes, sh \in BigShapes, ev \in BigInactiveEvery, d \in BOOLEAN }

\* first, followed by count unit ranges that start one address after first ends.
WithTail(first, count) ==
    [i \in 1 .. count + 1 |->
        IF i = 1 THEN first
        ELSE Range(first.RangeEndAddress + i - 1, first.RangeEndAddress + i, TRUE, i)]

\* The worked examples: the range [10,15) and the inactive range [0,100),
\* alone and as the first of LINEAR_SCAN_LIMIT ranges.
Example1015 == Range(10, 15, TRUE, 1)
ExampleInactive == Range(0, 100, FALSE, 1)
ExampleSeqs ==
    { WithTail(r, c) : r \in {Example1015, ExampleInactive},
                       c \in {0, LINEAR_SCAN_LIMIT - 1} }

RangeInputs == SmallRangeSeqs \cup BigRangeSeqs \cup ExampleSeqs

\* The largest end address of a sequence (0 for the empty one).
MaxEnd(ranges) ==
    LET ends == { ranges[i].RangeEndAddress : i \in 1 .. Len(ranges) } \cup {0}
    IN  CHOOSE m \in ends : \A e \in ends : e <= m

\* The addresses a sequence is queried at: every one up to past its last end.
QueryAddrs(ranges) == 0 .. (MaxEnd(ranges) + 1)

NoLookup(addr) ==
    [addr |-> addr, called |-> FALSE,
     pos |-> "NotInRange", color |-> UninitColor, idx |-> SIZE_MAX]

NoCells == <<>>

\* The fields of a row's note that the widgets after "Del" read: the
\* checkbox, the colour button, the two address fields and the description.
NoteFields == {"isActive", "RangeColor", "RangeStartAddress", "RangeEndAddress", "Description"}

\* "Del" has not been pressed in the last frame.
NoErase == [row |-> SIZE_MAX, size |-> 0, fields |-> {}, outcome |-> "none"]

\* No cell of a note has been drawn yet.
NoBelow ==
    [called |-> FALSE, addr |-> 0, colIdx |-> 0, lineIdx |-> 0, line_max_idx |-> 0,
     note_idx |-> SIZE_MAX, result |-> FALSE]

\* No DrawContents call yet.
NoFrame ==
    [drawn |-> FALSE, event |-> "none", ReadOnly |-> FALSE, preview_addr |-> SIZE_MAX]

\* HighlightFn = NULL: a callback is modelled by the set of the addresses it
\* returns true for, and the tests HighlightFn && HighlightFn(mem_data, addr)
\* fail alike for no callback and for one that is true nowhere.
NULL == {}

\* No highlight rectangle decided yet.
NoHighlight ==
    [called |-> FALSE, addr |-> 0, colIdx |-> 0, drawn |-> FALSE, range_idx |-> SIZE_MAX,
     highlight_width |-> "none"]

\* The fields of the editor as the constructor leaves them, no frame drawn.
EditorIdle ==
    /\ ReadOnly = FALSE
    /\ OptShowOptions = TRUE
    /\ OptShowAscii = TRUE
    /\ DataEditingAddr = SIZE_MAX
    /\ DataEditingTakeFocus = FALSE
    /\ GotoAddr = SIZE_MAX
    /\ HighlightMin = SIZE_MAX
    /\ HighlightMax = SIZE_MAX
    /\ HighlightFn = NULL
    /\ highlight = NoHighlight
    /\ PreviewHeaderOpen = FALSE
    /\ frame = NoFrame

\* No step of the converter panel yet.
NoConvert ==
    [op |-> "none", ValueToConvert |-> Zeros(8), ConvertValueType |-> DataType_U32,
     ConvertValueFormat |-> DataFormat_Hex, text |-> <<"0">>, scanned |-> FALSE,
     steps |-> 0]

\* The converter as the constructor leaves it: the value 0 as U32 in Hex,
\* the text "0".
ConverterIdle ==
    /\ ValueToConvert = Zeros(8)
    /\ ConvertValueType = DataType_U32
    /\ ConvertValueFormat = DataFormat_Hex
    /\ ValueConverterInputBuf = <<"0">>
    /\ convert = NoConvert

\* The panels as the constructor leaves them, over a buffer of zeros, and no
\* note cell drawn.
PanelsIdle ==
    /\ EditorIdle
    /\ ConverterIdle
    /\ mem_data = Zeros(mem_size)
    /\ DataPreviewAddr = SIZE_MAX
    /\ PreviewDataType = DataType_S32
    /\ PreviewEndianess = 0
    /\ HostLittleEndian = TRUE
    /\ preview = NoPreview
    /\ below = NoBelow

InitLookup ==
    /\ Ranges \in RangeInputs
    /\ Notes = <<>>
    /\ erased = NoErase
    /\ Cols = 4
    /\ OptMidColsCount = 0
    /\ mem_size = 0
    /\ lookup \in { NoLookup(a) : a \in QueryAddrs(Ranges) }
    /\ cells = NoCells
    /\ PanelsIdle

\* IsInRange(Ranges, addr, highlight_range_color, &range_idx) as DrawContents
\* calls it for a cell.
IsInRangeCall ==
    /\ ~lookup.called
    /\ LET r == IsInRange(Ranges, lookup.addr, UninitColor, SIZE_MAX) IN
       lookup' = [addr |-> lookup.addr, called |-> TRUE,
                  pos |-> r.pos, color |-> r.color, idx |-> r.idx]
    /\ UNCHANGED <<Ranges, Notes, Cols, OptMidColsCount, mem_size, cells, previewVars, below,
                 editorVars, converterVars, erased>>

NextLookup == IsInRangeCall

SpecLookup == InitLookup /\ [][NextLookup]_vars


-----------------------------------------------------------------------------
(* What the claims about IsInRange speak of *)

Contains(range, addr) ==
    range.RangeStartAddress <= addr /\ addr < range.RangeEndAddress

\* Well-formed ranges (start < end), sorted by start address and pairwise
\* non-overlapping: each one ends at or before the start of every later one.
SortedNonOverlapping(ranges) ==
    /\ \A i \in 1 .. Len(ranges) :
          ranges[i].RangeStartAddress < ranges[i].RangeEndAddress
    /\ \A i, j \in 1 .. Len(ranges) :
          i < j => ranges[i].RangeEndAddress <= ranges[j].RangeStartAddress

\* front.start <= addr < back.end
InSpan(ranges, addr) ==
    /\ Len(ranges) > 0
    /\ ranges[1].RangeStartAddress <= addr
    /\ addr < ranges[Len(ranges)].RangeEndAddress

\* The 0-based indices of the ranges whose [start, end) contains addr.
Containing(ranges, addr) ==
    { i \in 0 .. Len(ranges) - 1 : Contains(ranges[i + 1], addr) }

\* The first of them in insertion order.
FirstContaining(ranges, addr) ==
    CHOOSE i \in Containing(ranges, addr) :
        \A j \in Containing(ranges, addr) : i <= j

Matched == lookup.called /\ lookup.pos # "NotInRange"

\* C1: for well-formed ranges sorted by start and pairwise non-overlapping
\* and an address with front.start <= addr < back.end, the linear-scan path
\* and the binary-search path give the same position and, on a match, the
\* same index and colour; the call itself returns exactly that.
C1_PathsAgree ==
    (lookup.called /\ SortedNonOverlapping(Ranges) /\ InSpan(Ranges, lookup.addr)) =>
        LET lin == LinearScan(Ranges, 0, lookup.addr, UninitColor, SIZE_MAX)
            bin == BinarySearchPath(Ranges, lookup.addr, UninitColor, SIZE_MAX)
        IN  /\ lin.pos = bin.pos
            /\ lin.pos # "NotInRange" => (lin.idx = bin.idx /\ lin.color = bin.color)
            /\ lookup.pos = lin.pos
            /\ lookup.pos # "NotInRange" =>
                  (lookup.idx = lin.idx /\ lookup.color = lin.color)

\* A sorted sequence at the threshold, searched by bisection: a match on the
\* last address of a range that is not the first one.
C1_Witness ==
    /\ lookup.called /\ SortedNonOverlapping(Ranges) /\ InSpan(Ranges, lookup.addr)
    /\ Len(Ranges) >= LINEAR_SCAN_LIMIT
    /\ lookup.pos = "End"
    /\ lookup.idx > 0

\* The position the code reports inside a range that contains addr.
PositionIn(range, addr) ==
    IF addr = range.RangeStartAddress THEN "Start"
    ELSE IF addr = range.RangeEndAddress - 1 THEN "End"
    ELSE "Middle"

\* The first range in insertion order that contains addr decides the call.
DecidedByFirst ==
    IF Containing(Ranges, lookup.addr) = {} THEN lookup.pos = "NotInRange"
    ELSE LET f == FirstContaining(Ranges, lookup.addr)
             r == Ranges[f + 1]
         IN  IF r.isActive
             THEN /\ lookup.pos = PositionIn(r, lookup.addr)
                  /\ lookup.idx = f
                  /\ lookup.color = r.RangeColor
             ELSE lookup.pos = "NotInRange"

\* C2 as stated: below 100 ranges, in any order, the first range in
\* insertion order that contains addr decides the result.
C2_Original ==
    (lookup.called /\ Len(Ranges) < LINEAR_SCAN_LIMIT) => DecidedByFirst

\* C2 as amended: below 100 ranges, in any order, an address below the first
\* range's start or above the last range's end is NotInRange whatever the
\* ranges contain; every other address is decided by the first range in
\* insertion order that contains it (NotInRange when that one is inactive,
\* even if a later active range contains the address too).
C2_FirstMatchWithinBounds ==
    (lookup.called /\ Len(Ranges) > 0 /\ Len(Ranges) < LINEAR_SCAN_LIMIT) =>
        IF \/ lookup.addr < Ranges[1].RangeStartAddress
           \/ lookup.addr > Ranges[Len(Ranges)].RangeEndAddress
        THEN lookup.pos = "NotInRange"
        ELSE DecidedByFirst

\* An inactive first match hides a later active range that contains addr.
C2_Witness ==
    /\ lookup.called /\ Len(Ranges) = 2
    /\ Containing(Ranges, lookup.addr) = {0, 1}
    /\ ~Ranges[1].isActive /\ Ranges[2].isActive
    /\ Ranges[2].RangeStartAddress < Ranges[1].RangeStartAddress
    /\ lookup.pos = "NotInRange"

\* C3 as stated: on a match, Start iff addr = start, End iff addr = end - 1,
\* Middle otherwise.
C3_Original ==
    Matched =>
        LET r == Ranges[lookup.idx + 1] IN
        /\ (lookup.pos = "Start") <=> (lookup.addr = r.RangeStartAddress)
        /\ (lookup.pos = "End") <=> (lookup.addr = r.RangeEndAddress - 1)
        /\ (lookup.pos = "Middle") <=>
              (lookup.addr # r.RangeStartAddress /\ lookup.addr # r.RangeEndAddress - 1)

\* The position of each address for the single range [10,15).
Example1015Position(addr) ==
    IF addr = 10 THEN "Start"
    ELSE IF addr = 14 THEN "End"
    ELSE IF addr \in 11 .. 13 THEN "Middle"
    ELSE "NotInRange"

\* C3 as amended: on a match, on either path, Start iff addr = start, End
\* iff addr = end - 1 and addr # start (the only cell of a one-address range
\* is its Start, never its End), Middle otherwise; for [10,15) address 10 is
\* Start, 14 is End, 11 to 13 are Middle and 15 is NotInRange.
C3_Classification ==
    /\ Matched =>
        LET r == Ranges[lookup.idx + 1] IN
        /\ (lookup.pos = "Start") <=> (lookup.addr = r.RangeStartAddress)
        /\ (lookup.pos = "End") <=>
              (lookup.addr = r.RangeEndAddress - 1 /\ lookup.addr # r.RangeStartAddress)
        /\ (lookup.pos = "Middle") <=>
              (lookup.addr # r.RangeStartAddress /\ lookup.addr # r.RangeEndAddress - 1)
    /\ (lookup.called /\ Len(Ranges) >= 1 /\ Ranges[1] = Example1015
           /\ lookup.addr <= Example1015.RangeEndAddress) =>
          lookup.pos = Example1015Position(lookup.addr)

\* [10,15) as the first of 100 ranges, address 14: End, by bisection.
C3_Witness ==
    /\ lookup.called
    /\ Len(Ranges) >= LINEAR_SCAN_LIMIT /\ Ranges[1] = Example1015
    /\ lookup.addr = 14 /\ lookup.pos = "End" /\ lookup.idx = 0

\* C4: a result other than NotInRange designates a range whose isActive
\* flag is true, on both paths; the inactive range [0,100) queried at 50 is
\* NotInRange, alone and as the first of 100 ranges.
C4_InactiveNeverMatched ==
    /\ Matched =>
          /\ lookup.idx \in 0 .. Len(Ranges) - 1
          /\ Ranges[lookup.idx + 1].isActive
    /\ (lookup.called /\ Len(Ranges) >= 1 /\ Ranges[1] = ExampleInactive
           /\ lookup.addr = 50) =>
          lookup.pos = "NotInRange"

\* The inactive [0,100) located by bisection among 100 ranges at address 50.
C4_Witness ==
    /\ lookup.called
    /\ Len(Ranges) >= LINEAR_SCAN_LIMIT /\ Ranges[1] = ExampleInactive
    /\ lookup.addr = 50 /\ lookup.pos = "NotInRange"

\* C5: NotInRange for the empty sequence, and for every address below the
\* first range's start or above the last range's end, whatever the size.
C5_OutsideIsNotInRange ==
    lookup.called =>
        /\ Len(Ranges) = 0 => lookup.pos = "NotInRange"
        /\ (/\ Len(Ranges) > 0
            /\ \/ lookup.addr < Ranges[1].RangeStartAddress
               \/ lookup.addr > Ranges[Len(Ranges)].RangeEndAddress) =>
              lookup.pos = "NotInRange"

\* An address outside the bounds that an active range in between contains.
C5_Witness ==
    /\ lookup.called /\ Len(Ranges) > 0
    /\ lookup.addr > Ranges[Len(Ranges)].RangeEndAddress
    /\ \E i \in Containing(Ranges, lookup.addr) : Ranges[i + 1].isActive
    /\ lookup.pos = "NotInRange"

\* C6: if no active range contains addr the result is NotInRange; on any
\* other result the index written is within bounds, the range at that
\* index contains addr and the colour written is that range's colour.
C6_Sound ==
    lookup.called =>
        /\ (\A i \in Containing(Ranges, lookup.addr) : ~Ranges[i + 1].isActive) =>
              lookup.pos = "NotInRange"
        /\ lookup.pos # "NotInRange" =>
              /\ lookup.idx \in 0 .. Len(Ranges) - 1
              /\ Contains(Ranges[lookup.idx + 1], lookup.addr)
              /\ lookup.color = Ranges[lookup.idx + 1].RangeColor

\* A match on a range that is not the first of the sequence, unsorted input.
C6_Witness ==
    /\ Matched /\ lookup.idx = 1
    /\ Ranges[2].RangeStartAddress < Ranges[1].RangeStartAddress
    /\ lookup.color = Ranges[2].RangeColor


-----------------------------------------------------------------------------
(* The notes table and the pass over the visible lines *)

\* What the user types in the Start and End fields of a note, the grid
\* widths and mid-column settings, and the buffer size of the outline
\* specification: enough for one-cell notes, notes inside one line, notes
\* over two and three lines, notes that start inside a line and notes that
\* reach past the end of the buffer.
NoteStartInputs == {0, 5}
NoteEndInputs == {1, 4, 9, 11}
ColsInputs == {4, 5}
MidColsInputs == {0, 1, 2}
MemSizeInputs == {10}

InitOutline ==
    /\ Ranges = <<>>
    /\ Notes = <<>>
    /\ erased = NoErase
    /\ Cols \in ColsInputs
    /\ OptMidColsCount \in MidColsInputs
    /\ mem_size \in MemSizeInputs
    /\ lookup = NoLookup(0)
    /\ cells = NoCells
    /\ PanelsIdle

\* The draw list lasts one frame: the handlers of the notes table below end
\* the frame they run in, and what that frame drew is dropped.

\* Button "+##add": Notes.push_back({0, 1, DEFAULT_NOTE_COLOR, ..., true})
AddNote ==
    /\ erased.outcome # "crash"
    /\ Len(Notes) < MaxNotes
    /\ Notes' = Append(Notes, Range(0, 1, TRUE, DEFAULT_NOTE_COLOR))
    /\ cells' = NoCells
    /\ erased' = NoErase
    /\ UNCHANGED <<Ranges, Cols, OptMidColsCount, mem_size, lookup, previewVars, below,
                 editorVars, converterVars>>

\* auto &note = Notes[row] after Notes.erase(Notes.begin() + row): the
\* reference is to the note that moved down into the row, or, past the last
\* note, to a destroyed element, whose Description points to freed memory.
NoteAfterErase(row, size) ==
    IF row < size THEN {"next note"} ELSE {"destroyed note", "crash"}

\* Button "Del": Notes.erase(Notes.begin() + row), then the other widgets of
\* the row, each of which reads its field through note.
DelNote(row) ==
    /\ erased.outcome # "crash"
    /\ row < Len(Notes)
    /\ Notes' = [i \in 1 .. Len(Notes) - 1 |-> IF i <= row THEN Notes[i] ELSE Notes[i + 1]]
    /\ erased' \in { [row |-> row, size |-> Len(Notes) - 1, fields |-> NoteFields,
                       outcome |-> o] : o \in NoteAfterErase(row, Len(Notes) - 1) }
    /\ cells' = NoCells
    /\ UNCHANGED <<Ranges, Cols, OptMidColsCount, mem_size, lookup, previewVars, below,
                 editorVars, converterVars>>

\* Checkbox "##isActive" of a row
SetActive(row) ==
    /\ erased.outcome # "crash"
    /\ row < Len(Notes)
    /\ Notes' = [Notes EXCEPT ![row + 1].isActive = ~Notes[row + 1].isActive]
    /\ cells' = NoCells
    /\ erased' = NoErase
    /\ UNCHANGED <<Ranges, Cols, OptMidColsCount, mem_size, lookup, previewVars, below,
                 editorVars, converterVars>>

\* InputText "##range_start" of a row: sscanf into note.RangeStartAddress
SetRangeStart(row, value) ==
    /\ erased.outcome # "crash"
    /\ row < Len(Notes)
    /\ Notes[row + 1].RangeStartAddress # value
    /\ Notes' = [Notes EXCEPT ![row + 1].RangeStartAddress = value]
    /\ cells' = NoCells
    /\ erased' = NoErase
    /\ UNCHANGED <<Ranges, Cols, OptMidColsCount, mem_size, lookup, previewVars, below,
                 editorVars, converterVars>>

\* InputText "##range_end" of a row: sscanf into note.RangeEndAddress
SetRangeEnd(row, value) ==
    /\ erased.outcome # "crash"
    /\ row < Len(Notes)
    /\ Notes[row + 1].RangeEndAddress # value
    /\ Notes' = [Notes EXCEPT ![row + 1].RangeEndAddress = value]
    /\ cells' = NoCells
    /\ erased' = NoErase
    /\ UNCHANGED <<Ranges, Cols, OptMidColsCount, mem_size, lookup, previewVars, below,
                 editorVars, converterVars>>

\* byte_pos_x += (float)(colIdx / OptMidColsCount) * s.SpacingBetweenMidCols:
\* the cell layout puts extra spacing between column colIdx and the next one.
MidColsSpacingAfter(colIdx) ==
    /\ OptMidColsCount > 0
    /\ colIdx + 1 < Cols
    /\ ((colIdx + 1) \div OptMidColsCount) # (colIdx \div OptMidColsCount)

\* const int line_total_count = (int)((mem_size + Cols - 1) / Cols)
line_total_count == (mem_size + Cols - 1) \div Cols

\* The loop of DrawContents over the lines the clipper reports visible,
\* DisplayStart <= line_i < DisplayEnd, and over the cells of each line
\* (colIdx < Cols && addr < mem_size): the note outline of every cell.
DrawHexadecimal(DisplayStart, DisplayEnd) ==
    /\ erased.outcome # "crash"
    /\ 0 <= DisplayStart /\ DisplayStart < DisplayEnd /\ DisplayEnd <= line_total_count
    /\ cells' = [addr \in { a \in 0 .. mem_size - 1 :
                              /\ DisplayStart <= a \div Cols
                              /\ a \div Cols < DisplayEnd }
                   |-> DrawCell(addr, DisplayStart, DisplayEnd)]
    /\ cells' # cells
    /\ erased' = NoErase
    /\ UNCHANGED <<Ranges, Notes, Cols, OptMidColsCount, mem_size, lookup, previewVars, below,
                 editorVars, converterVars>>

NextOutline ==
    \/ AddNote
    \/ \E row \in 0 .. MaxNotes - 1 : DelNote(row)
    \/ \E row \in 0 .. MaxNotes - 1 : SetActive(row)
    \/ \E row \in 0 .. MaxNotes - 1, value \in NoteStartInputs : SetRangeStart(row, value)
    \/ \E row \in 0 .. MaxNotes - 1, value \in NoteEndInputs : SetRangeEnd(row, value)
    \/ \E DisplayStart \in 0 .. line_total_count, DisplayEnd \in 0 .. line_total_count :
          DrawHexadecimal(DisplayStart, DisplayEnd)

SpecOutline == InitOutline /\ [][NextOutline]_vars


-----------------------------------------------------------------------------
(* What the claims about the outline speak of *)

\* The visible cells that the last pass matched to an active note.
NoteCells == { a \in DOMAIN cells : cells[a].range_position # "NotInRange" }

\* The address of the cell directly below, and the first address of the next line.
Below(a) == a + Cols
NextLineFirst(a) == a - cells[a].colIdx + Cols

\* A note occupies the cell at addr: the cell is in the buffer and the
\* lookup that draws it matches it to a note.
NoteOccupies(addr) ==
    addr < mem_size /\ IsInRange(Notes, addr, UninitColor, SIZE_MAX).pos # "NotInRange"

ScanStops(a, n) ==
    { j \in n + 1 .. Len(Notes) - 1 :
        /\ Notes[j + 1].RangeStartAddress <= NextLineFirst(a)
        /\ Notes[j + 1].RangeEndAddress <= Below(a) }
Scanned(a, n) ==
    { j \in n + 1 .. Len(Notes) - 1 : \A k \in ScanStops(a, n) : j < k }

\* Among them, those that start at or before the next line's first address
\* and reach past the address below.
ReachBelow(a, n) ==
    { j \in Scanned(a, n) :
        /\ Notes[j + 1].RangeStartAddress <= NextLineFirst(a)
        /\ Below(a) < Notes[j + 1].RangeEndAddress }

\* The scan ends on an active one of them.
LaterNoteBelow(a, n) ==
    /\ ReachBelow(a, n) # {}
    /\ Notes[(CHOOSE j \in ReachBelow(a, n) : \A k \in ReachBelow(a, n) : k <= j) + 1].isActive

\* The matched note itself reaches past the address below.
SameNoteBelow(a, n) == Below(a) < Notes[n + 1].RangeEndAddress

SameNoteInColumn3(a) ==
    /\ cells[a].colIdx = 3
    /\ ~MidColsSpacingAfter(3)
    /\ NoteOccupies(Below(a))
    /\ IsInRange(Notes, Below(a), UninitColor, SIZE_MAX).idx = cells[a].note_idx

\* C8 as stated: with the same note in column 3 of line N and of line N+1
\* and no gap at column 3, the bottom edge at line N, column 3 is not drawn,
\* wherever line N is in the visible window.
C8_Original ==
    \A a \in NoteCells : SameNoteInColumn3(a) => "Bottom" \notin cells[a].edges

\* C8 as amended: with the same note in column 3 of line N and of line N+1
\* and no gap at column 3, the bottom edge at line N, column 3 is not drawn
\* when line N is not the last visible line (on the last visible line the
\* bottom edge is drawn).
C8_Continuity ==
    \A a \in NoteCells :
        SameNoteInColumn3(a) =>
            (("Bottom" \notin cells[a].edges) <=>
                (cells[a].line_idx < cells[a].line_max_idx))

\* Column 3 inside a line (Cols = 5) of a note over two visible lines.
C8_Witness ==
    \E a \in NoteCells :
        /\ SameNoteInColumn3(a)
        /\ Cols > 4
        /\ cells[a].line_idx < cells[a].line_max_idx
        /\ "Bottom" \notin cells[a].edges

\* An active note whose cells all lie in one display row of the buffer.
InOneRow(note) ==
    /\ note.RangeStartAddress < note.RangeEndAddress
    /\ note.RangeEndAddress <= mem_size
    /\ note.RangeStartAddress \div Cols = (note.RangeEndAddress - 1) \div Cols

\* C9: every cell of a note that lies in one display row gets its top and
\* its bottom edge, the first cell the left edge and the last cell the
\* right edge, and no other edge, whatever the notes collection holds.
C9_Original ==
    \A a \in NoteCells :
        LET note == Notes[cells[a].note_idx + 1] IN
        InOneRow(note) =>
            cells[a].edges =
                {"Top", "Bottom"}
                \cup (IF a = note.RangeStartAddress THEN {"Left"} ELSE {})
                \cup (IF a = note.RangeEndAddress - 1 THEN {"Right"} ELSE {})

\* The last cell of a display line: the last column, or the last address of
\* the buffer on the truncated final line.
LastCellOfLine(a) == cells[a].colIdx = Cols - 1 \/ a = mem_size - 1

\* C10: the right edge is drawn iff the cell's position is End or the cell
\* is the last cell of its display line, the final line possibly truncated.
C10_Original ==
    \A a \in NoteCells :
        ("Right" \in cells[a].edges) <=>
            (cells[a].range_position = "End" \/ LastCellOfLine(a))

\* C11: the left edge of a note cell is drawn if and only if the cell's
\* position is Start or the cell is in column 0 of its display line.
C11_LeftEdge ==
    \A a \in NoteCells :
        ("Left" \in cells[a].edges) <=>
            (cells[a].range_position = "Start" \/ cells[a].colIdx = 0)

\* A pass over a note that wraps: a Middle cell in column 0 with the left
\* edge, and a Middle cell in a later column without it.
C11_Witness ==
    /\ \E a \in NoteCells :
          /\ cells[a].range_position = "Middle" /\ cells[a].colIdx = 0
          /\ "Left" \in cells[a].edges
    /\ \E a \in NoteCells :
          /\ cells[a].range_position = "Middle" /\ cells[a].colIdx > 0
          /\ "Left" \notin cells[a].edges

-----------------------------------------------------------------------------
(* The preview of a buffer value: inputs and specification *)

\* The bytes the buffers are made of, and the buffers: every one of 1 to
\* MaxMemSize such bytes, and the worked examples.
ByteInputs == {1, 128, 255}

SmallBuffers ==
    UNION { [1 .. n -> ByteInputs] : n \in 1 .. MaxMemSize }

Example01020304 == <<1, 2, 3, 4>>

ExampleBuffers == { Example01020304, <<15>>, <<1, 2, 3, 4, 5, 6, 7, 248>>, <<0, 0, 128, 63>> }

InitPreview ==
    /\ Ranges = <<>>
    /\ Notes = <<>>
    /\ erased = NoErase
    /\ Cols = 4
    /\ OptMidColsCount = 0
    /\ lookup = NoLookup(0)
    /\ cells = NoCells
    /\ mem_data \in SmallBuffers \cup ExampleBuffers
    /\ mem_size = Len(mem_data)
    /\ DataPreviewAddr \in 0 .. mem_size - 1
    /\ PreviewDataType \in DataType_S8 .. DataType_Double
    /\ PreviewEndianess \in {0, 1}
    /\ HostLittleEndian \in BOOLEAN
    /\ preview \in { [NoPreview EXCEPT !.data_format = f] :
                        f \in {DataFormat_Hex, DataFormat_Bin} }
    /\ below = NoBelow
    /\ EditorIdle
    /\ ConverterIdle

\* DrawPreviewData(DataPreviewAddr, mem_data, mem_size, PreviewDataType,
\* data_format, buf, ...) as DrawPreviewLine calls it.
DrawPreviewDataCall ==
    /\ ~preview.called
    /\ preview' = DrawPreviewData(DataPreviewAddr, PreviewDataType, preview.data_format)
    /\ UNCHANGED <<Ranges, Notes, Cols, OptMidColsCount, mem_size, lookup, cells,
                   mem_data, DataPreviewAddr, PreviewDataType, PreviewEndianess,
                   HostLittleEndian, below, editorVars, converterVars, erased>>

NextPreview == DrawPreviewDataCall

SpecPreview == InitPreview /\ [][NextPreview]_vars

-----------------------------------------------------------------------------
(* What the claims about the preview speak of *)

\* The buffer byte at offset k from the preview address.
PreviewByte(k) == mem_data[DataPreviewAddr + k + 1]

\* A value was decoded from all the bytes of the selected type.
DecodedWhole ==
    /\ preview.called /\ preview.data_format # DataFormat_Bin
    /\ preview.size = DataTypeGetSize(PreviewDataType)

\* The number a value of four bytes denotes, when it is below 2^31.
NumberOf4(value) ==
    value[1] + (2 ^ 8) * value[2] + (2 ^ 16) * value[3] + (2 ^ 24) * value[4]

\* C12: four buffer bytes b0,b1,b2,b3 decoded as U32 give the value whose
\* bytes, least significant first, are b0,b1,b2,b3 when little-endian is
\* selected and b3,b2,b1,b0 when big-endian is selected, that is the numbers
\* b0 + 2^8*b1 + 2^16*b2 + 2^24*b3 and b3 + 2^8*b2 + 2^16*b1 + 2^24*b0
\* (compared as numbers below 2^31); [0x01,0x02,0x03,0x04] gives
\* 0x04030201 and 0x01020304.
C12_DecodeU32 ==
    (DecodedWhole /\ PreviewDataType = DataType_U32) =>
        LET b == [k \in 0 .. 3 |-> PreviewByte(k)]
            expected == IF PreviewEndianess = 0 THEN <<b[0], b[1], b[2], b[3]>>
                        ELSE <<b[3], b[2], b[1], b[0]>>
        IN  /\ preview.value = expected
            /\ preview.value[4] < 128 =>
                  NumberOf4(preview.value) =
                      IF PreviewEndianess = 0
                      THEN b[0] + (2 ^ 8) * b[1] + (2 ^ 16) * b[2] + (2 ^ 24) * b[3]
                      ELSE b[3] + (2 ^ 8) * b[2] + (2 ^ 16) * b[1] + (2 ^ 24) * b[0]
            /\ (mem_data = Example01020304) =>
                  /\ NumberOf4(preview.value) =
                        IF PreviewEndianess = 0 THEN 67305985 ELSE 16909060
                  /\ preview.out_buf =
                        IF PreviewEndianess = 0
                        THEN <<"0", "x", "0", "4", "0", "3", "0", "2", "0", "1">>
                        ELSE <<"0", "x", "0", "1", "0", "2", "0", "3", "0", "4">>

\* [0x01,0x02,0x03,0x04] decoded as big-endian U32 on a big-endian machine.
C12_Witness ==
    /\ DecodedWhole /\ PreviewDataType = DataType_U32
    /\ mem_data = Example01020304 /\ PreviewEndianess = 1 /\ ~HostLittleEndian
    /\ preview.value = <<4, 3, 2, 1>>

\* The preview address is closer to the end of the buffer than the width
\* of the selected type.
ShortRead == mem_size - DataPreviewAddr < DataTypeGetSize(PreviewDataType)

\* C13: near the end of the buffer DrawPreviewData reads min(width,
\* mem_size - addr) bytes, none at or past mem_size, and the remaining
\* high-order bytes of the decoded value are zero, under both settings of
\* the endianness selector.
C13_Original ==
    (preview.called /\ ShortRead) =>
        /\ preview.size = mem_size - DataPreviewAddr
        /\ preview.reads = DataPreviewAddr .. mem_size - 1
        /\ preview.data_format # DataFormat_Bin =>
              \A k \in preview.size + 1 .. DataTypeGetSize(PreviewDataType) :
                  preview.value[k] = 0

\* The text of the bytes of a value, the most significant first, each as
\* its eight bits, with one space between consecutive bytes.
RECURSIVE BitsSpaced(_, _)
BitsSpaced(value, k) ==
    IF k = 0 THEN <<>>
    ELSE BitChars(value[k]) \o (IF k > 1 THEN <<" ">> ELSE <<>>) \o BitsSpaced(value, k - 1)

\* The value the selected bytes denote under the selected endianness.
SelectedValue ==
    LET n == preview.size IN
    [k \in 1 .. n |-> IF PreviewEndianess = 0 THEN PreviewByte(k - 1) ELSE PreviewByte(n - k)]

\* C14: the binary text of a U8 is exactly its 8 bit characters, most
\* significant bit first, nothing before or after ("00001111" for 0x0F);
\* wider types give their bytes most significant first with one space
\* between consecutive bytes.
C14_Original ==
    (preview.called /\ preview.data_format = DataFormat_Bin) =>
        /\ preview.out_buf = BitsSpaced(SelectedValue, preview.size)
        /\ (PreviewDataType = DataType_U8 /\ PreviewByte(0) = 15) =>
              preview.out_buf = <<"0", "0", "0", "0", "1", "1", "1", "1">>

\* C15 as stated: for every data type and every value, scanning in Hex
\* radix ("%zX") the text that DrawPreviewData writes for the value in
\* DataFormat_Hex gives back the bits of the value.
C15_Original ==
    (preview.called /\ preview.data_format = DataFormat_Hex) =>
        \A p \in ScanHex(preview.out_buf) :
            p.ok /\ SubSeq(p.value, 1, Len(preview.value)) = preview.value

-----------------------------------------------------------------------------
(* hasRangeBelow over any notes: inputs and specification *)

\* The notes: any 1 to MaxBelowNotes of them, each in the first two lines of
\* a grid of 4 columns, in any order, active or not.
BelowNoteShapes ==
    { Range(s, e, a, DEFAULT_NOTE_COLOR) : s \in {0, 4}, e \in {1, 4, 8}, a \in BOOLEAN }

BelowNoteSeqs == UNION { [1 .. n -> BelowNoteShapes] : n \in 1 .. MaxBelowNotes }

\* The cell of the first line at addr, in a window of line_max_idx + 1 lines.
BelowCell(addr, line_max_idx) ==
    [NoBelow EXCEPT !.addr = addr, !.colIdx = addr % Cols, !.lineIdx = addr \div Cols,
                    !.line_max_idx = line_max_idx]

InitBelow ==
    /\ Ranges = <<>>
    /\ Notes \in BelowNoteSeqs
    /\ erased = NoErase
    /\ Cols = 4
    /\ OptMidColsCount = 0
    /\ mem_size = 8
    /\ lookup = NoLookup(0)
    /\ cells = NoCells
    /\ mem_data = Zeros(mem_size)
    /\ DataPreviewAddr = SIZE_MAX
    /\ PreviewDataType = DataType_S32
    /\ PreviewEndianess = 0
    /\ HostLittleEndian = TRUE
    /\ preview = NoPreview
    /\ below \in { BelowCell(a, m) : a \in 0 .. Cols - 1, m \in {0, 1} }
    /\ EditorIdle
    /\ ConverterIdle

\* drawNoteRect for the cell, matched to a note by IsInRange(Notes, ...):
\* its call hasRangeBelow(lastLineAddr, note_idx, lineIdx, colIdx, line_max_idx).
hasRangeBelowCall ==
    /\ ~below.called
    /\ LET r == IsInRange(Notes, below.addr, UninitColor, SIZE_MAX)
           lastLineAddr == (below.addr + (Cols - below.colIdx - 1)) % (SIZE_MAX + 1)
       IN  /\ r.pos # "NotInRange"
           /\ below' = [below EXCEPT
                  !.called = TRUE,
                  !.note_idx = r.idx,
                  !.result = hasRangeBelow(lastLineAddr, r.idx, below.lineIdx,
                                           below.colIdx, below.line_max_idx)]
    /\ UNCHANGED <<Ranges, Notes, Cols, OptMidColsCount, mem_size, lookup, cells, previewVars,
                   editorVars, converterVars, erased>>

NextBelow == hasRangeBelowCall

SpecBelow == InitBelow /\ [][NextBelow]_vars

-----------------------------------------------------------------------------
(* What the claims about hasRangeBelow speak of *)

\* The next line's first address and the address directly below the cell.
BelowNextLineFirst == below.addr - below.colIdx + Cols
BelowCellAddr == below.addr + Cols

\* Note j starts at or before the next line's first address ...
StartsBeforeNextLine(j) == Notes[j + 1].RangeStartAddress <= BelowNextLineFirst
\* ... and extends past the cell directly below.
ExtendsPastBelow(j) == BelowCellAddr < Notes[j + 1].RangeEndAddress

\* The notes stored after the matched one.
LaterNotes == below.note_idx + 1 .. Len(Notes) - 1

\* C19 as stated: on a line that is not the last visible one, hasRangeBelow
\* is true whenever some different, later-indexed, active note starts at or
\* before the next line's first address and extends past the cell directly
\* below, whatever other notes are stored between or after it.
C19_Original ==
    (/\ below.called /\ below.lineIdx < below.line_max_idx
     /\ \E j \in LaterNotes :
           Notes[j + 1].isActive /\ StartsBeforeNextLine(j) /\ ExtendsPastBelow(j)) =>
        below.result

\* The later notes the scan looks at: those stored before the first later
\* note that starts at or before the next line's first address and does not
\* extend past the cell directly below (the scan stops there).
BelowScanned ==
    { j \in LaterNotes :
        \A k \in LaterNotes :
            (StartsBeforeNextLine(k) /\ ~ExtendsPastBelow(k)) => j < k }

\* Among them, those that start at or before the next line's first address
\* and extend past the cell directly below.
BelowCandidates ==
    { j \in BelowScanned : StartsBeforeNextLine(j) /\ ExtendsPastBelow(j) }

LastCandidate == CHOOSE j \in BelowCandidates : \A k \in BelowCandidates : k <= j

\* C19 as amended: on a line that is not the last visible one, hasRangeBelow
\* is true if and only if the matched note extends past the cell directly
\* below, or the scan of the later-indexed notes finds a note that starts at
\* or before the next line's first address and extends past the cell
\* directly below, and the last such note it finds is active; the scan stops
\* at the first later note that starts at or before the next line's first
\* address without extending past the cell below.
C19_LaterNoteBelow ==
    (below.called /\ below.lineIdx < below.line_max_idx) =>
        (below.result <=>
            \/ BelowCellAddr < Notes[below.note_idx + 1].RangeEndAddress
            \/ BelowCandidates # {} /\ Notes[LastCandidate + 1].isActive)

\* The matched note ends on its line, the note stored right after it is
\* inactive and the one after that is the active note below.
C19_Witness ==
    /\ below.called /\ below.lineIdx < below.line_max_idx
    /\ Len(Notes) = 3 /\ below.note_idx = 0
    /\ Notes[1].RangeEndAddress <= BelowCellAddr
    /\ BelowCandidates = {1, 2}
    /\ ~Notes[2].isActive /\ Notes[3].isActive
    /\ below.result

\* C20: hasRangeBelow is false whenever lineIdx >= line_max_idx, so every
\* note cell on the last visible line gets a bottom edge.
C20_LastLineBottom ==
    \A a \in NoteCells :
        cells[a].line_idx >= cells[a].line_max_idx =>
            /\ ~hasRangeBelow((a + (Cols - cells[a].colIdx - 1)) % (SIZE_MAX + 1),
                              cells[a].note_idx, cells[a].line_idx, cells[a].colIdx,
                              cells[a].line_max_idx)
            /\ "Bottom" \in cells[a].edges

\* A note cell on the last visible line whose note goes on at the address
\* directly below, in a column that no mid-column gap follows.
C20_Witness ==
    \E a \in NoteCells :
        /\ cells[a].line_idx >= cells[a].line_max_idx
        /\ ~MidColsSpacingAfter(cells[a].colIdx)
        /\ a + Cols < Notes[cells[a].note_idx + 1].RangeEndAddress
        /\ "Bottom" \in cells[a].edges

-----------------------------------------------------------------------------
(* The frames of DrawContents: inputs and specification *)

InitEditor ==
    /\ Ranges = <<>>
    /\ Notes = <<>>
    /\ erased = NoErase
    /\ Cols = 4
    /\ OptMidColsCount = 0
    /\ mem_size \in 1 .. MaxEditorMem
    /\ lookup = NoLookup(0)
    /\ cells = NoCells
    /\ mem_data = Zeros(mem_size)
    /\ DataPreviewAddr = SIZE_MAX
    /\ PreviewDataType = DataType_S32
    /\ PreviewEndianess = 0
    /\ HostLittleEndian = TRUE
    /\ preview = NoPreview
    /\ below = NoBelow
    /\ EditorIdle
    /\ ConverterIdle

\* One frame: DrawContents with the input in and base_display_addr 0.
Frame(in) ==
    LET d == DrawContents(in, 0) IN
    /\ Cols' = d.Cols
    /\ DataEditingAddr' = d.DataEditingAddr
    /\ DataPreviewAddr' = d.DataPreviewAddr
    /\ DataEditingTakeFocus' = d.DataEditingTakeFocus
    /\ GotoAddr' = d.GotoAddr
    /\ HighlightMin' = d.HighlightMin
    /\ HighlightMax' = d.HighlightMax
    /\ PreviewHeaderOpen' = d.PreviewHeaderOpen
    /\ frame' = [drawn |-> TRUE, event |-> in.event, ReadOnly |-> ReadOnly,
                 preview_addr |-> d.preview_addr]
    /\ UNCHANGED <<Ranges, Notes, OptMidColsCount, mem_size, lookup, cells, mem_data,
                   PreviewDataType, PreviewEndianess, HostLittleEndian, preview, below,
                   ReadOnly, OptShowOptions, OptShowAscii, HighlightFn, highlight,
                   converterVars, erased>>

\* A frame without input.
FrameIdle == Frame(FrameInput("none", SIZE_MAX, FALSE))

\* A frame in which the mouse is clicked on a hex cell: the loop draws the
\* cells of the addresses below mem_size.
FrameHexClick ==
    \E addr \in 0 .. mem_size - 1 : Frame(FrameInput("hex", addr, FALSE))

\* A frame in which the mouse is released on the ASCII column of a line:
\* the button of each line is Cols glyphs wide, whatever the line holds.
FrameAsciiClick ==
    \E line_i \in 0 .. ((mem_size + Cols - 1) \div Cols) - 1 :
        \E offset \in 0 .. Cols - 1 :
            Frame(FrameInput("ascii", line_i * Cols + offset, FALSE))

\* A frame in which Enter is pressed in the address field.
FrameGotoEnter ==
    \/ Frame(FrameInput("goto", 0, FALSE))
    \/ \E goto_addr \in {0, mem_size - 1, mem_size} :
          Frame(FrameInput("goto", goto_addr, TRUE))

\* A frame in which the header "Preview Data" is clicked.
FrameHeaderClick == Frame(FrameInput("header", SIZE_MAX, FALSE))

\* The host calls GotoAddrAndHighlight(addr_min, addr_max) between frames.
GotoAddrAndHighlight ==
    \E addr_min \in {0, mem_size} :
        /\ GotoAddr' = addr_min
        /\ HighlightMin' = addr_min
        /\ HighlightMax' = addr_min + 1
        /\ UNCHANGED <<Ranges, Notes, Cols, OptMidColsCount, mem_size, lookup, cells,
                       previewVars, below, ReadOnly, OptShowOptions, OptShowAscii,
                       DataEditingAddr, DataEditingTakeFocus, PreviewHeaderOpen, frame,
                       HighlightFn, highlight, converterVars, erased>>

\* The host sets the public fields ReadOnly, OptShowOptions and OptShowAscii
\* between frames.
SetOptions ==
    /\ ReadOnly' \in BOOLEAN
    /\ OptShowOptions' \in BOOLEAN
    /\ OptShowAscii' \in BOOLEAN
    /\ UNCHANGED <<Ranges, Notes, Cols, OptMidColsCount, mem_size, lookup, cells,
                   previewVars, below, DataEditingAddr, DataEditingTakeFocus, GotoAddr,
                   HighlightMin, HighlightMax, HighlightFn, highlight, PreviewHeaderOpen,
                   frame, converterVars, erased>>

NextEditor ==
    \/ FrameIdle
    \/ FrameHexClick
    \/ FrameAsciiClick
    \/ FrameGotoEnter
    \/ FrameHeaderClick
    \/ GotoAddrAndHighlight
    \/ SetOptions

SpecEditor == InitEditor /\ [][NextEditor]_vars

\* C18 as stated: while ReadOnly is set, after every DrawContents call,
\* whatever clicks on the hex or ASCII area and whatever goto requests
\* occurred during that frame, DataEditingAddr is the sentinel.
C18_Original ==
    (frame.drawn /\ frame.ReadOnly) => DataEditingAddr = SIZE_MAX

-----------------------------------------------------------------------------
(* The converter panel: inputs and specification *)

\* The texts typed into the value field.
ConverterTexts ==
    { <<>>, <<"z", "z">>, <<"5">>, <<"-", "1">>, <<"1", "2", "z", "z">>,
      <<"1", ".", "5">>, <<"3", "0", "0">>, <<"f", "f">> }

InitConverter ==
    /\ Ranges = <<>>
    /\ Notes = <<>>
    /\ erased = NoErase
    /\ Cols = 4
    /\ OptMidColsCount = 0
    /\ mem_size = 0
    /\ lookup = NoLookup(0)
    /\ cells = NoCells
    /\ mem_data = <<>>
    /\ DataPreviewAddr = SIZE_MAX
    /\ PreviewDataType = DataType_S32
    /\ PreviewEndianess = 0
    /\ HostLittleEndian \in BOOLEAN
    /\ preview = NoPreview
    /\ below = NoBelow
    /\ EditorIdle
    /\ ConverterIdle

\* What a step of the converter panel started from.
ConvertFrom(op, scanned) ==
    [op |-> op, ValueToConvert |-> ValueToConvert, ConvertValueType |-> ConvertValueType,
     ConvertValueFormat |-> ConvertValueFormat, text |-> ValueConverterInputBuf,
     scanned |-> scanned, steps |-> convert.steps + 1]

\* A frame in which the text of the value field is edited: InputText
\* returns true and the text is scanned.
ConverterInput ==
    /\ convert.steps < MaxConvertSteps
    /\ \E text \in ConverterTexts \ {ValueConverterInputBuf} :
        \E p \in ConvertScan(text, ConvertValueType, ConvertValueFormat, ValueToConvert) :
            /\ ValueConverterInputBuf' = text
            /\ ValueToConvert' = p.value
            /\ convert' = ConvertFrom("input", p.ok)
            /\ UNCHANGED <<Ranges, Notes, Cols, OptMidColsCount, mem_size, lookup, cells,
                           previewVars, below, editorVars, ConvertValueType,
                           ConvertValueFormat, erased>>

\* A frame in which the format combo is open and the format n is selected
\* (n may be the current one): the text is rendered again if the format
\* changes, then scanned (force_input_update).
ConverterSelectFormat ==
    /\ convert.steps < MaxConvertSteps
    /\ \E n \in 0 .. DataFormat_COUNT - 1 :
        LET text == ConvertFormatText(ConvertValueFormat, n, ConvertValueType,
                                      ValueToConvert, ValueConverterInputBuf)
        IN  \E p \in ConvertScan(text, ConvertValueType, n, ValueToConvert) :
                /\ ConvertValueFormat' = n
                /\ ValueConverterInputBuf' = text
                /\ ValueToConvert' = p.value
                /\ convert' = ConvertFrom("format", p.ok)
                /\ UNCHANGED <<Ranges, Notes, Cols, OptMidColsCount, mem_size, lookup, cells,
                               previewVars, below, editorVars, ConvertValueType, erased>>

\* A frame in which the type combo is open and the type n is selected (n may
\* be the current one): the text is rendered again by the rules of the
\* combo, then scanned (force_input_update).
ConverterSelectType ==
    /\ convert.steps < MaxConvertSteps
    /\ \E n \in 0 .. DataType_COUNT - 1 :
        LET text == ConvertTypeText(ConvertValueType, n, ConvertValueFormat,
                                    ValueToConvert, ValueConverterInputBuf)
        IN  \E p \in ConvertScan(text, n, ConvertValueFormat, ValueToConvert) :
                /\ ConvertValueType' = n
                /\ ValueConverterInputBuf' = text
                /\ ValueToConvert' = p.value
                /\ convert' = ConvertFrom("type", p.ok)
                /\ UNCHANGED <<Ranges, Notes, Cols, OptMidColsCount, mem_size, lookup, cells,
                               previewVars, below, editorVars, ConvertValueFormat, erased>>

NextConverter ==
    \/ ConverterInput
    \/ ConverterSelectFormat
    \/ ConverterSelectType

SpecConverter == InitConverter /\ [][NextConverter]_vars

\* Whether the whole of text is a numeral in the syntax that the scan of the
\* format and the type reads: hexadecimal digits after an optional "0x" in
\* Hex; else decimal digits after an optional sign, for the floating-point
\* types with an optional point among them.
WholeNumeral(text, type, format) ==
    LET signed == IF text # <<>> /\ text[1] \in {"+", "-"} THEN Tail(text) ELSE text
        prefixed == IF Len(text) >= 2 /\ text[1] = "0" /\ text[2] \in {"x", "X"}
                    THEN SubSeq(text, 3, Len(text)) ELSE text
        ni == DigitRun(signed, 10)
        fraction == IF Len(signed) > ni /\ signed[ni + 1] = "."
                    THEN SubSeq(signed, ni + 2, Len(signed)) ELSE <<>>
    IN  IF format = DataFormat_Hex
        THEN prefixed # <<>> /\ DigitRun(prefixed, 16) = Len(prefixed)
        ELSE IF type >= DataType_HalfFloat
        THEN /\ ni + Len(fraction) > 0
             /\ DigitRun(fraction, 10) = Len(fraction)
             /\ Len(signed) = ni + (IF Len(signed) > ni THEN 1 ELSE 0) + Len(fraction)
        ELSE signed # <<>> /\ ni = Len(signed)

\* C16 as stated: if the text typed into the converter is malformed for the
\* current radix and type, the scan fails and ValueToConvert keeps exactly
\* its previous value, for every radix and every data type.
C16_Original ==
    (/\ convert.op = "input"
     /\ ~WholeNumeral(ValueConverterInputBuf, ConvertValueType, ConvertValueFormat)) =>
        (~convert.scanned /\ ValueToConvert = convert.ValueToConvert)

\* C17 as stated: after a change of the data type in the converter panel has
\* been processed, the forced scan of the text included, ValueToConvert
\* holds the same value as before it, for every previous type, new type and
\* radix.
C17_Original ==
    convert.op = "type" => ValueToConvert = convert.ValueToConvert

\* The values that scanning text as a decimal number of the type assigns: a
\* floating-point number of the type's width for the three floating-point
\* types, a signed decimal for the even enumerants, an unsigned decimal for
\* the odd ones.
DecimalOfType(text, type) ==
    LET scans == IF type = DataType_HalfFloat THEN ScanFloat(text, 5, 11)
                 ELSE IF type = DataType_Float THEN ScanFloat(text, 8, 24)
                 ELSE IF type = DataType_Double THEN ScanFloat(text, 11, 53)
                 ELSE ScanDecimal(text, type % 2 = 0)
    IN  { p.value : p \in { s \in scans : s.ok } }

\* C22 as stated: in the decimal radix, a successful scan of the typed text
\* stores the bit pattern of the scanned value in ValueToConvert according
\* to the selected type: HalfFloat, Float and Double as decimal floating
\* point, the signed integer kinds as signed decimal, the unsigned kinds as
\* unsigned decimal.
C22_Original ==
    (/\ convert.op = "input"
     /\ ConvertValueFormat = DataFormat_Dec
     /\ convert.scanned) =>
        \E v \in DecimalOfType(ValueConverterInputBuf, ConvertValueType) :
            SubSeq(ValueToConvert, 1, Len(v)) = v

-----------------------------------------------------------------------------
(* DrawContents: the highlight rectangle of a cell *)

\* size_t a + b: the sum modulo SIZE_MAX + 1
SizeAdd(a, b) == (a + b) % (SIZE_MAX + 1)

\* bool isNextByteHighlighted(addr, mem_size, preview_data_type_size, rangeIdx, mem_data)
isNextByteHighlighted(addr, preview_data_type_size, rangeIdx) ==
    LET isNotLastAddr == (addr + 1) < mem_size
        highlighMaxWasSet == HighlightMax # SIZE_MAX
        highlighFromFn == (addr + 1) \in HighlightFn
        isNotLastHighlighAddr == (addr + 1) < HighlightMax
        highlightFromPreview ==
            (addr + 1) < SizeAdd(DataPreviewAddr, preview_data_type_size)
        isNotLastInRange ==
            /\ rangeIdx < Len(Ranges)
            /\ (addr + 1) < Ranges[rangeIdx + 1].RangeEndAddress
    IN  /\ isNotLastAddr
        /\ \/ (highlighMaxWasSet /\ isNotLastHighlighAddr)
           \/ highlighFromFn
           \/ highlightFromPreview
           \/ isNotLastInRange

\* The rectangle AddRectFilled draws behind the cell of addr in column colIdx:
\* the two highlight branches of the cell loop compute the same width.
HighlightRect(addr, colIdx) ==
    LET preview_data_type_size == DataTypeGetSize(PreviewDataType)
        is_highlight_from_user_range == (addr >= HighlightMin) /\ (addr < HighlightMax)
        is_highlight_from_user_func == addr \in HighlightFn
        is_highlight_from_preview ==
            /\ addr >= DataPreviewAddr
            /\ addr < SizeAdd(DataPreviewAddr, preview_data_type_size)
        in_range == IsInRange(Ranges, addr, UninitColor, SIZE_MAX)
        range_idx == in_range.idx
        is_next_byte_highlighted ==
            isNextByteHighlighted(addr, preview_data_type_size, range_idx)
        highlight_width ==
            IF is_next_byte_highlighted \/ (colIdx + 1 = Cols)
            THEN IF /\ OptMidColsCount > 0 /\ colIdx > 0 /\ (colIdx + 1) < Cols
                    /\ ((colIdx + 1) % OptMidColsCount) = 0
                 THEN "HexCellWidth + SpacingBetweenMidCols"
                 ELSE "HexCellWidth"
            ELSE "GlyphWidth * 2"
    IN  IF \/ is_highlight_from_user_range \/ is_highlight_from_user_func
           \/ is_highlight_from_preview
           \/ in_range.pos # "NotInRange"
        THEN [called |-> TRUE, addr |-> addr, colIdx |-> colIdx, drawn |-> TRUE,
              range_idx |-> range_idx, highlight_width |-> highlight_width]
        ELSE [called |-> TRUE, addr |-> addr, colIdx |-> colIdx, drawn |-> FALSE,
              range_idx |-> range_idx, highlight_width |-> "none"]

\* The highlight ranges of the frames below: none, one range of one or two
\* addresses, active or not, and two ranges that touch.
HighlightRangeSeqs ==
    {<<>>, <<Range(0, 2, TRUE, 1), Range(2, 4, TRUE, 2)>>}
    \cup { <<Range(s, e, a, 1)>> : s \in 0 .. 2, e \in {1, 3, 4}, a \in BOOLEAN }

InitHighlight ==
    /\ Ranges \in { r \in HighlightRangeSeqs :
                      \A i \in 1 .. Len(r) : r[i].RangeStartAddress < r[i].RangeEndAddress }
    /\ Notes = <<>>
    /\ erased = NoErase
    /\ Cols = 4
    /\ OptMidColsCount \in {0, 2}
    /\ mem_size = MaxEditorMem
    /\ lookup = NoLookup(0)
    /\ cells = NoCells
    /\ mem_data = Zeros(mem_size)
    /\ DataPreviewAddr \in {SIZE_MAX, 0, 3}
    /\ PreviewDataType \in {DataType_S8, DataType_S16, DataType_S32}
    /\ PreviewEndianess = 0
    /\ HostLittleEndian = TRUE
    /\ preview = NoPreview
    /\ below = NoBelow
    /\ ReadOnly = FALSE
    /\ OptShowOptions = TRUE
    /\ OptShowAscii = TRUE
    /\ DataEditingAddr = SIZE_MAX
    /\ DataEditingTakeFocus = FALSE
    /\ GotoAddr = SIZE_MAX
    /\ \E user_range \in {<<SIZE_MAX, SIZE_MAX>>, <<0, 1>>, <<2, 4>>} :
          /\ HighlightMin = user_range[1]
          /\ HighlightMax = user_range[2]
    /\ HighlightFn \in {NULL, {1, 2}, {5}}
    /\ highlight \in { [NoHighlight EXCEPT !.addr = a, !.colIdx = a % Cols] :
                         a \in 0 .. mem_size - 1 }
    /\ PreviewHeaderOpen = FALSE
    /\ frame = NoFrame
    /\ ConverterIdle

\* The cell loop of DrawContents reaches the cell and draws its highlight.
DrawHighlight ==
    /\ ~highlight.called
    /\ highlight' = HighlightRect(highlight.addr, highlight.colIdx)
    /\ UNCHANGED <<Ranges, Notes, Cols, OptMidColsCount, mem_size, lookup, cells,
                   previewVars, below, ReadOnly, OptShowOptions, OptShowAscii,
                   DataEditingAddr, DataEditingTakeFocus, GotoAddr, HighlightMin,
                   HighlightMax, HighlightFn, PreviewHeaderOpen, frame, converterVars, erased>>

NextHighlight == DrawHighlight

SpecHighlight == InitHighlight /\ [][NextHighlight]_vars

\* The sources that annotate an address: the user's highlight range, the
\* highlight callback, the preview span, and the range of Ranges with index idx.
UserRangeAt(a) == (a >= HighlightMin) /\ (a < HighlightMax)
CallbackAt(a) == a \in HighlightFn
PreviewSpanAt(a) ==
    /\ DataPreviewAddr # SIZE_MAX
    /\ a >= DataPreviewAddr
    /\ a < DataPreviewAddr + DataTypeGetSize(PreviewDataType)
MatchedRangeAt(a, idx) ==
    /\ idx < Len(Ranges)
    /\ Ranges[idx + 1].RangeStartAddress <= a
    /\ a < Ranges[idx + 1].RangeEndAddress

\* One source annotates the address and the one after it, inside the buffer.
NextAnnotatedBySameSource(a, idx) ==
    /\ a + 1 < mem_size
    /\ \/ UserRangeAt(a) /\ UserRangeAt(a + 1)
       \/ CallbackAt(a) /\ CallbackAt(a + 1)
       \/ PreviewSpanAt(a) /\ PreviewSpanAt(a + 1)
       \/ MatchedRangeAt(a, idx) /\ MatchedRangeAt(a + 1, idx)

\* C21: the highlight of a cell is as wide as the cell exactly when the next
\* address is annotated by the same source or the cell is in the last column.
C21_Original ==
    (highlight.called /\ highlight.drawn) =>
        ((highlight.highlight_width # "GlyphWidth * 2")
            <=> \/ NextAnnotatedBySameSource(highlight.addr, highlight.range_idx)
                \/ highlight.colIdx + 1 = Cols)

-----------------------------------------------------------------------------
(* The frames of DrawContents: the preview target and the goto request *)

\* C24: no frame calls DrawPreviewData on the buffer with an address at or
\* past mem_size.
C24_Original ==
    (frame.drawn /\ frame.preview_addr # SIZE_MAX) => frame.preview_addr < mem_size

\* A step that is one DrawContents call, whatever its input.
DrawContentsStep ==
    \/ FrameIdle
    \/ FrameHexClick
    \/ FrameAsciiClick
    \/ FrameGotoEnter
    \/ FrameHeaderClick

\* C27: a DrawContents call that starts with a goto pending below mem_size
\* ends with DataEditingAddr = DataPreviewAddr = that address, and every
\* DrawContents call ends with GotoAddr at the sentinel.
C27_Original ==
    [][DrawContentsStep =>
          /\ GotoAddr' = SIZE_MAX
          /\ (GotoAddr # SIZE_MAX /\ GotoAddr < mem_size) =>
                (DataEditingAddr' = GotoAddr /\ DataPreviewAddr' = GotoAddr)]_vars

-----------------------------------------------------------------------------
(* drawNoteRect: the gap between the middle columns *)

\* C28: for a note cell in column c with c + 1 < Cols, is_space_in_between
\* holds exactly when the layout of DrawContents puts the extra spacing
\* between column c and column c + 1.
C28_Original ==
    \A a \in NoteCells :
        (cells[a].colIdx + 1 < Cols) =>
            (is_space_in_between(cells[a].colIdx) <=> MidColsSpacingAfter(cells[a].colIdx))

-----------------------------------------------------------------------------
(* IsInRange: the outputs of a lookup that finds nothing *)

\* C29: a lookup that returns NotInRange leaves the colour and the index
\* the caller passed as they were.
C29_Original ==
    (lookup.called /\ lookup.pos = "NotInRange") =>
        (lookup.color = UninitColor /\ lookup.idx = SIZE_MAX)

-----------------------------------------------------------------------------
(* The notes table: the buttons "+" and "Del" *)

\* C23: the button "+" leaves the lookup of every address of the buffer
\* outside [0, 1) in Notes as it was: position, index and colour.
C23_Original ==
    [][AddNote =>
          \A addr \in 1 .. mem_size - 1 :
              IsInRange(Notes', addr, UninitColor, SIZE_MAX)
                  = IsInRange(Notes, addr, UninitColor, SIZE_MAX)]_vars

\* C25: after "Del" erases a row, the rest of the iteration touches a field
\* of the row's note only if the row is still below Notes.size().
C25_Original ==
    (erased.row # SIZE_MAX /\ erased.fields # {}) => erased.row < erased.size

-----------------------------------------------------------------------------
(* hasRangeBelow and the lookup of the cell below *)

\* C26: whenever hasRangeBelow is true for a cell, the lookup
\* IsInRange(Notes, ...) of the address directly below it finds a note.
C26_Original ==
    (below.called /\ below.result) =>
        IsInRange(Notes, BelowCellAddr, UninitColor, SIZE_MAX).pos # "NotInRange"

=============================================================================
